---- MODULE Spec2Model ----
(***************************************************************************)
(* Position ledger of utils/portfolio.py (class Portfolio).                *)
(*                                                                         *)
(* The ledger keeps two dictionaries (holdings for stocks, mutual_funds    *)
(* for funds), a transaction list and, once a fund name was given, a       *)
(* fund_names dictionary.  Share counts, prices and average prices are     *)
(* Python floats: every *, +, - and / rounds its exact result to the       *)
(* nearest representable value (ties to even).  The model keeps that       *)
(* rounding, with a significand of Precision bits instead of 53: a float   *)
(* is <<m, e>>, standing for m * 2^e, with m = 0 or                        *)
(* 2^(Precision-1) <= m < 2^Precision.  Only non-negative values occur in  *)
(* the ledger; gains, losses and daily returns are signed.                 *)
(*                                                                         *)
(* The read-only methods (get_portfolio_value, get_portfolio_returns,      *)
(* calculate_portfolio_metrics) and the functions of                       *)
(* utils/performance_metrics.py leave the ledger alone: call records the   *)
(* last such call, what the data providers answered to it and what it      *)
(* returned.  Five specifications share the variables: Spec (the ledger    *)
(* operations), RoundedSpec (the same operations on quantities whose sums  *)
(* round), AnalyticsSpec (a short ledger with the read-only methods),      *)
(* MetricsSpec (the functions of utils/performance_metrics.py applied to   *)
(* series of decimal returns, kept as exact fractions) and SectorSpec      *)
(* (calculate_sector_allocation applied to valuation snapshots).           *)
(***************************************************************************)
EXTENDS Integers, Sequences, FiniteSets, TLC

VARIABLES holdings, mutual_funds, transactions, fund_names, ret, call

vars == <<holdings, mutual_funds, transactions, fund_names, ret, call>>

ledger == <<holdings, mutual_funds, transactions>>

(***************************************************************************)
(* Bounds.                                                                 *)
(***************************************************************************)
\* significand width of the modelled floats
Precision == 9

\* longest transaction list explored
MaxTx == 3

(***************************************************************************)
(* Float arithmetic.                                                       *)
(***************************************************************************)
RECURSIVE Pow2(_)
Pow2(n) == IF n <= 0 THEN 1 ELSE 2 * Pow2(n - 1)

RECURSIVE BitLen(_)
BitLen(n) == IF n = 0 THEN 0 ELSE 1 + BitLen(n \div 2)

Abs(n) == IF n < 0 THEN -n ELSE n

Zero == <<0, 0>>

\* n * 2^e, n > 0, rounded to Precision significant bits, ties to even
RoundPos(n, e) ==
    LET k == BitLen(n) - Precision IN
    IF k <= 0 THEN <<n * Pow2(-k), e + k>>
    ELSE LET d  == Pow2(k)
             q  == n \div d
             r  == n % d
             h  == d \div 2
             q1 == IF r > h \/ (r = h /\ q % 2 = 1) THEN q + 1 ELSE q
         IN IF q1 = Pow2(Precision)
            THEN <<Pow2(Precision - 1), e + k + 1>>
            ELSE <<q1, e + k>>

\* n * 2^e rounded to the nearest float
Round(n, e) ==
    IF n = 0 THEN Zero
    ELSE IF n > 0 THEN RoundPos(n, e)
    ELSE LET r == RoundPos(-n, e) IN <<-r[1], r[2]>>

\* the float of a whole number
Float(n) == Round(n, 0)

\* a * b
FMul(a, b) == Round(a[1] * b[1], a[2] + b[2])

\* the significands of a and b over their smaller exponent
Aligned(a, b) ==
    LET e == IF a[2] < b[2] THEN a[2] ELSE b[2]
    IN <<a[1] * Pow2(a[2] - e), b[1] * Pow2(b[2] - e), e>>

\* a + b
FAdd(a, b) ==
    IF a[1] = 0 THEN b
    ELSE IF b[1] = 0 THEN a
    ELSE LET x == Aligned(a, b) IN Round(x[1] + x[2], x[3])

\* a - b
FSub(a, b) ==
    IF b[1] = 0 THEN a
    ELSE IF a[1] = 0 THEN <<-b[1], b[2]>>
    ELSE LET x == Aligned(a, b) IN Round(x[1] - x[2], x[3])

\* a / b for b # 0 (Python raises ZeroDivisionError for b = 0): the quotient
\* of the significands is taken to Precision + 2 bits and a sticky bit
FDiv(a, b) ==
    IF a[1] = 0 THEN Zero
    ELSE LET s      == Precision + 2
             n      == Abs(a[1]) * Pow2(s)
             q      == n \div Abs(b[1])
             sticky == IF n % Abs(b[1]) = 0 THEN 0 ELSE 1
             sign   == IF (a[1] < 0) = (b[1] < 0) THEN 1 ELSE -1
         IN Round(sign * (2 * q + sticky), a[2] - b[2] - s - 1)

\* a > b
FGt(a, b) ==
    IF a[1] = 0 THEN b[1] < 0
    ELSE IF b[1] = 0 THEN a[1] > 0
    ELSE LET x == Aligned(a, b) IN x[1] > x[2]

\* a <= b
FLe(a, b) == ~FGt(a, b)

(***************************************************************************)
(* Inputs of the calls.                                                    *)
(***************************************************************************)
Tickers == {"A"}

AssetTypes == {"stock", "mutual_fund"}

\* share counts and prices the pages pass to add_position (all > 0)
Shares == {Float(10), Float(20)}

Prices == {Float(100), Float(120)}

\* share counts and prices the pages pass to remove_position (all > 0)
SellShares == {Float(10), Float(20), Float(25)}

SellPrices == {Float(100), Float(150)}

\* 'YYYY-MM-DD' strings, which compare like the days they name
Dates == {1, 2}

SellDates == {2}

\* units and NAVs the callers pass for mutual funds (all > 0)
Units == {Float(10)}

SellUnits == {Float(10), Float(25)}

Navs == {Float(100)}

\* the pages always pass a fund name ("None" stands for the default None)
FundNames == {"Fund"}

(***************************************************************************)
(* Portfolio.__init__                                                      *)
(***************************************************************************)
\* an empty dict
EmptyDict == [x \in {} |-> Zero]

\* no valuation or analytics call was made since the ledger last changed
NoCall == [op |-> "none"]

Init ==
    /\ holdings = EmptyDict
    /\ mutual_funds = EmptyDict
    /\ transactions = << >>
    /\ fund_names = EmptyDict
    /\ ret = "None"
    /\ call = NoCall

(***************************************************************************)
(* Helpers of add_position and remove_position.                            *)
(***************************************************************************)
\* d[key] = value
Put(d, key, value) ==
    [x \in DOMAIN d \cup {key} |-> IF x = key THEN value ELSE d[x]]

\* del d[key]
Del(d, key) == [x \in DOMAIN d \ {key} |-> d[x]]

\* the dictionary add_position and remove_position choose for an asset type
HoldingsDict(asset_type) ==
    IF asset_type = "mutual_fund" THEN mutual_funds ELSE holdings

\* the fields of shares and price taken from each other's argument
Transaction_SwapsSharesAndPrice(ticker, action, shares, price, date, asset_type) ==
    [ticker |-> ticker, action |-> action, shares |-> price,
     price |-> shares, date |-> date, asset_type |-> asset_type]

\* the record appended to self.transactions
Transaction(ticker, action, shares, price, date, asset_type) ==
    [ticker |-> ticker, action |-> action, shares |-> shares,
     price |-> price, date |-> date, asset_type |-> asset_type]

\* the position a buy creates for a ticker that is not held
NewPosition(shares, purchase_price, purchase_date, asset_type) ==
    [shares |-> shares, avg_price |-> purchase_price,
     purchase_date |-> purchase_date, asset_type |-> asset_type]

\* total_shares taken as existing_shares - shares
UpdatedPosition_SubtractsShares(pos, shares, purchase_price, purchase_date, asset_type) ==
    LET existing_cost == FMul(pos.shares, pos.avg_price)
        new_cost      == FMul(shares, purchase_price)
        avg_price     == FDiv(FAdd(existing_cost, new_cost), FAdd(pos.shares, shares))
    IN [shares |-> FSub(pos.shares, shares), avg_price |-> avg_price,
        purchase_date |-> pos.purchase_date, asset_type |-> asset_type]

\* the average taken as the plain mean of the old average and the new price
UpdatedPosition_PlainMean(pos, shares, purchase_price, purchase_date, asset_type) ==
    [shares |-> FAdd(pos.shares, shares),
     avg_price |-> FDiv(FAdd(pos.avg_price, purchase_price), Float(2)),
     purchase_date |-> pos.purchase_date, asset_type |-> asset_type]

\* the date of the new buy written over the stored one
UpdatedPosition_NewDate(pos, shares, purchase_price, purchase_date, asset_type) ==
    LET existing_cost == FMul(pos.shares, pos.avg_price)
        new_cost      == FMul(shares, purchase_price)
        total_shares  == FAdd(pos.shares, shares)
    IN [shares |-> total_shares,
        avg_price |-> FDiv(FAdd(existing_cost, new_cost), total_shares),
        purchase_date |-> purchase_date, asset_type |-> asset_type]

\* the earlier of the stored date and the date of the new buy kept
UpdatedPosition_EarliestDate(pos, shares, purchase_price, purchase_date, asset_type) ==
    LET existing_cost == FMul(pos.shares, pos.avg_price)
        new_cost      == FMul(shares, purchase_price)
        total_shares  == FAdd(pos.shares, shares)
    IN [shares |-> total_shares,
        avg_price |-> FDiv(FAdd(existing_cost, new_cost), total_shares),
        purchase_date |-> IF purchase_date < pos.purchase_date
                          THEN purchase_date ELSE pos.purchase_date,
        asset_type |-> asset_type]

\* the position a buy leaves for a ticker that is already held
UpdatedPosition(pos, shares, purchase_price, purchase_date, asset_type) ==
    LET existing_shares == pos.shares
        existing_cost   == FMul(pos.shares, pos.avg_price)
        new_cost        == FMul(shares, purchase_price)
        total_shares    == FAdd(existing_shares, shares)
        avg_price       == FDiv(FAdd(existing_cost, new_cost), total_shares)
    IN [shares |-> total_shares, avg_price |-> avg_price,
        purchase_date |-> pos.purchase_date, asset_type |-> asset_type]

\* holdings_dict after the buy
Bought(holdings_dict, ticker, shares, purchase_price, purchase_date, asset_type) ==
    IF ticker \in DOMAIN holdings_dict
    THEN Put(holdings_dict, ticker,
             UpdatedPosition(holdings_dict[ticker], shares, purchase_price,
                             purchase_date, asset_type))
    ELSE Put(holdings_dict, ticker,
             NewPosition(shares, purchase_price, purchase_date, asset_type))

\* the check of shares against the held shares left out
CanSell_NoQuantityCheck(holdings_dict, ticker, shares) ==
    ticker \in DOMAIN holdings_dict

\* the check of shares against the held shares written with >=
CanSell_RejectsFullSell(holdings_dict, ticker, shares) ==
    /\ ticker \in DOMAIN holdings_dict
    /\ FGt(holdings_dict[ticker].shares, shares)

\* neither early return of remove_position is taken
CanSell(holdings_dict, ticker, shares) ==
    /\ ticker \in DOMAIN holdings_dict
    /\ ~FGt(shares, holdings_dict[ticker].shares)

\* the average recomputed from the unchanged cost over the shares left
Sold_RecomputesAverage(holdings_dict, ticker, shares) ==
    LET pos  == holdings_dict[ticker]
        left == FSub(pos.shares, shares)
    IN IF FLe(left, Zero)
       THEN Del(holdings_dict, ticker)
       ELSE [holdings_dict EXCEPT ![ticker].shares = left,
                                  ![ticker].avg_price =
                                      FDiv(FMul(pos.shares, pos.avg_price), left)]

\* the position deleted only below zero shares
Sold_KeepsEmptyPosition(holdings_dict, ticker, shares) ==
    LET left == FSub(holdings_dict[ticker].shares, shares)
    IN IF FGt(Zero, left)
       THEN Del(holdings_dict, ticker)
       ELSE [holdings_dict EXCEPT ![ticker].shares = left]

\* a sold-out position kept, with no shares
Sold_ZeroesPosition(holdings_dict, ticker, shares) ==
    LET left == FSub(holdings_dict[ticker].shares, shares)
    IN IF FLe(left, Zero)
       THEN [holdings_dict EXCEPT ![ticker].shares = Zero]
       ELSE [holdings_dict EXCEPT ![ticker].shares = left]

\* holdings_dict after the sell
Sold(holdings_dict, ticker, shares) ==
    LET left == FSub(holdings_dict[ticker].shares, shares)
    IN IF FLe(left, Zero)
       THEN Del(holdings_dict, ticker)
       ELSE [holdings_dict EXCEPT ![ticker].shares = left]

\* the ledger part of add_position
AddToLedger(ticker, shares, purchase_price, purchase_date, asset_type) ==
    /\ Len(transactions) < MaxTx
    /\ IF asset_type = "mutual_fund"
       THEN /\ mutual_funds' = Bought(mutual_funds, ticker, shares, purchase_price,
                                      purchase_date, asset_type)
            /\ UNCHANGED holdings
       ELSE /\ holdings' = Bought(holdings, ticker, shares, purchase_price,
                                  purchase_date, asset_type)
            /\ UNCHANGED mutual_funds
    /\ transactions' = Append(transactions,
            Transaction(ticker, "buy", shares, purchase_price, purchase_date, asset_type))

(***************************************************************************)
(* The operations.                                                         *)
(***************************************************************************)
add_position(ticker, shares, purchase_price, purchase_date, asset_type) ==
    /\ AddToLedger(ticker, shares, purchase_price, purchase_date, asset_type)
    /\ ret' = "None"
    /\ call' = NoCall
    /\ UNCHANGED fund_names

remove_position(ticker, shares, sell_price, sell_date, asset_type) ==
    IF ~CanSell(HoldingsDict(asset_type), ticker, shares)
    THEN /\ ret' = "False"
         /\ call' = NoCall
         /\ UNCHANGED <<ledger, fund_names>>
    ELSE /\ Len(transactions) < MaxTx
         /\ IF asset_type = "mutual_fund"
            THEN /\ mutual_funds' = Sold(mutual_funds, ticker, shares)
                 /\ UNCHANGED holdings
            ELSE /\ holdings' = Sold(holdings, ticker, shares)
                 /\ UNCHANGED mutual_funds
         /\ transactions' = Append(transactions,
                 Transaction(ticker, "sell", shares, sell_price, sell_date, asset_type))
         /\ ret' = "True"
         /\ call' = NoCall
         /\ UNCHANGED fund_names

add_mutual_fund_IntoHoldings(fund_code, units, nav, purchase_date, fund_name) ==
    /\ AddToLedger(fund_code, units, nav, purchase_date, "stock")
    /\ fund_names' = IF fund_name # "None"
                     THEN Put(fund_names, fund_code, fund_name)
                     ELSE fund_names
    /\ ret' = "None"
    /\ call' = NoCall

add_mutual_fund(fund_code, units, nav, purchase_date, fund_name) ==
    /\ AddToLedger(fund_code, units, nav, purchase_date, "mutual_fund")
    /\ fund_names' = IF fund_name # "None"
                     THEN Put(fund_names, fund_code, fund_name)
                     ELSE fund_names
    /\ ret' = "None"
    /\ call' = NoCall

remove_mutual_fund(fund_code, units, nav, sell_date) ==
    remove_position(fund_code, units, nav, sell_date, "mutual_fund")

\* the pages call add_position and remove_position with the default asset_type
AddPosition ==
    \E t \in Tickers, s \in Shares, p \in Prices, d \in Dates :
        add_position(t, s, p, d, "stock")

RemovePosition ==
    \E t \in Tickers, s \in SellShares, p \in SellPrices, d \in SellDates :
        remove_position(t, s, p, d, "stock")

AddMutualFund ==
    \E c \in Tickers, u \in Units, n \in Navs, d \in Dates, f \in FundNames :
        add_mutual_fund(c, u, n, d, f)

RemoveMutualFund ==
    \E c \in Tickers, u \in SellUnits, n \in Navs, d \in SellDates :
        remove_mutual_fund(c, u, n, d)

Next == AddPosition \/ RemovePosition \/ AddMutualFund \/ RemoveMutualFund

Spec == Init /\ [][Next]_vars

(***************************************************************************)
(* Portfolio.get_portfolio_value                                           *)
(***************************************************************************)
\* what get_stock_data(ticker, period='1d') hands back: None, an empty frame,
\* or a frame whose last Close is a price
NoData == [data |-> "None", close |-> Zero]

EmptyData == [data |-> "Empty", close |-> Zero]

Quote(price) == [data |-> "Frame", close |-> price]

Quotes == {NoData, EmptyData, Quote(Float(150))}

\* current_data is not None and not current_data.empty
HasQuote(current_data) == current_data.data = "Frame"

\* (1 + daily_return) ** days_held of the simulated NAV: 1.0 on the day of
\* the purchase, more later
NavGrowth == {Float(1), FDiv(Float(5), Float(4))}

\* the keys of a dict in the order the loops visit them (one key at most
\* with the tickers above)
RECURSIVE Keys(_)
Keys(S) ==
    IF S = {} THEN << >>
    ELSE LET k == CHOOSE x \in S : TRUE IN <<k>> \o Keys(S \ {k})

\* what a division by zero leaves in place of a float (Python raises
\* ZeroDivisionError); no float has this form
ZeroDivisionError == <<0, 1>>

\* ... if cost_basis > 0 else 0: whether the division is evaluated
Divides_Always(cost_basis) == TRUE

Divides(cost_basis) == FGt(cost_basis, Zero)

\* (gain_loss / cost_basis) * 100 if cost_basis > 0 else 0
GainLossPct(gain_loss, cost_basis) ==
    IF Divides(cost_basis)
    THEN IF cost_basis = Zero
         THEN ZeroDivisionError
         ELSE FMul(FDiv(gain_loss, cost_basis), Float(100))
    ELSE Zero

\* the dict appended to positions for a stock with a quote
StockValue(ticker, position, current_price) ==
    LET cost_basis == FMul(position.shares, position.avg_price)
        current_value == FMul(position.shares, current_price)
        gain_loss == FSub(current_value, cost_basis)
    IN [ticker |-> ticker, shares |-> position.shares,
        avg_price |-> position.avg_price, current_price |-> current_price,
        cost_basis |-> cost_basis, current_value |-> current_value,
        gain_loss |-> gain_loss,
        gain_loss_pct |-> GainLossPct(gain_loss, cost_basis),
        asset_type |-> "stock"]

\* the dict appended to mutual_fund_positions
FundValue(fund_code, position, growth) ==
    LET fund_name == IF fund_code \in DOMAIN fund_names
                     THEN fund_names[fund_code] ELSE fund_code
        current_nav == FMul(position.avg_price, growth)
        cost_basis == FMul(position.shares, position.avg_price)
        current_value == FMul(position.shares, current_nav)
        gain_loss == FSub(current_value, cost_basis)
    IN [ticker |-> fund_code, fund_name |-> fund_name,
        units |-> position.shares, avg_nav |-> position.avg_price,
        current_nav |-> current_nav,
        cost_basis |-> cost_basis, current_value |-> current_value,
        gain_loss |-> gain_loss,
        gain_loss_pct |-> GainLossPct(gain_loss, cost_basis),
        asset_type |-> "mutual_fund"]

\* the stock loop: a ticker without a quote is passed over
RECURSIVE StockPositions_ListsUnquoted(_, _)
StockPositions_ListsUnquoted(keys, quotes) ==
    IF keys = << >> THEN << >>
    ELSE LET ticker == Head(keys)
             price == IF HasQuote(quotes[ticker])
                      THEN quotes[ticker].close ELSE holdings[ticker].avg_price
         IN <<StockValue(ticker, holdings[ticker], price)>>
                \o StockPositions_ListsUnquoted(Tail(keys), quotes)

RECURSIVE StockPositions(_, _)
StockPositions(keys, quotes) ==
    IF keys = << >> THEN << >>
    ELSE LET ticker == Head(keys)
             rest == StockPositions(Tail(keys), quotes)
         IN IF HasQuote(quotes[ticker])
            THEN <<StockValue(ticker, holdings[ticker], quotes[ticker].close)>>
                    \o rest
            ELSE rest

\* the mutual fund loop: a fund whose valuation raises is reported and
\* passed over (except Exception)
RECURSIVE FundPositions(_, _)
FundPositions(keys, growth) ==
    IF keys = << >> THEN << >>
    ELSE LET fund_code == Head(keys)
             value == FundValue(fund_code, mutual_funds[fund_code], growth[fund_code])
             rest == FundPositions(Tail(keys), growth)
         IN IF value.gain_loss_pct = ZeroDivisionError
            THEN rest
            ELSE <<value>> \o rest

\* total += field, over the positions in the order they were appended
RECURSIVE Total(_, _, _)
Total(total, positions, field) ==
    IF positions = << >> THEN total
    ELSE Total(FAdd(total, Head(positions)[field]), Tail(positions), field)

\* the dict get_portfolio_value returns, given the two lists and the totals
Valuation(positions, mutual_fund_positions, total_value, total_cost) ==
    [positions |-> positions,
     mutual_fund_positions |-> mutual_fund_positions,
     all_positions |-> positions \o mutual_fund_positions,
     total_value |-> total_value,
     total_cost |-> total_cost,
     total_gain_loss |-> FSub(total_value, total_cost),
     total_gain_loss_pct |->
         GainLossPct(FSub(total_value, total_cost), total_cost)]

\* the totals the two loops accumulate, stocks first
Totalled_CostOfStocksOnly(positions, mutual_fund_positions) ==
    Valuation(positions, mutual_fund_positions,
              Total(Zero, positions \o mutual_fund_positions, "current_value"),
              Total(Zero, positions, "cost_basis"))

Totalled(positions, mutual_fund_positions) ==
    Valuation(positions, mutual_fund_positions,
              Total(Zero, positions \o mutual_fund_positions, "current_value"),
              Total(Zero, positions \o mutual_fund_positions, "cost_basis"))

PortfolioValue(quotes, growth) ==
    Totalled(StockPositions(Keys(DOMAIN holdings), quotes),
             FundPositions(Keys(DOMAIN mutual_funds), growth))

\* an exception leaves get_portfolio_value: a division by zero in the stock
\* loop or in the totals (nothing catches it there)
ValueRaises(value) ==
    \/ \E i \in 1..Len(value.positions) :
            value.positions[i].gain_loss_pct = ZeroDivisionError
    \/ value.total_gain_loss_pct = ZeroDivisionError

\* a call of get_portfolio_value during which the quote provider answers
\* quotes and the simulated NAVs have grown by growth
get_portfolio_value_DropsUnquoted(quotes, growth) ==
    \E value \in {PortfolioValue(quotes, growth)} :
    /\ call' = [op |-> "get_portfolio_value", quotes |-> quotes,
                growth |-> growth, value |-> value,
                raised |-> ValueRaises(value)]
    /\ ret' = IF ValueRaises(value) THEN "raised" ELSE "dict"
    /\ holdings' = [t \in {x \in DOMAIN holdings : HasQuote(quotes[x])} |->
                        holdings[t]]
    /\ UNCHANGED <<mutual_funds, transactions, fund_names>>

get_portfolio_value(quotes, growth) ==
    \E value \in {PortfolioValue(quotes, growth)} :
    /\ call' = [op |-> "get_portfolio_value", quotes |-> quotes,
                growth |-> growth, value |-> value,
                raised |-> ValueRaises(value)]
    /\ ret' = IF ValueRaises(value) THEN "raised" ELSE "dict"
    /\ UNCHANGED <<ledger, fund_names>>

GetPortfolioValue ==
    \E quotes \in [DOMAIN holdings -> Quotes],
       growth \in [DOMAIN mutual_funds -> NavGrowth] :
        get_portfolio_value(quotes, growth)

(***************************************************************************)
(* Portfolio.get_portfolio_returns                                         *)
(***************************************************************************)
\* a missing value of a frame; no float has this form
NaN == <<0, 2>>

One == Float(1)

\* n / 100
Percent(n) == FDiv(Float(n), Float(100))

\* what get_stock_data(ticker, period) hands back: None, or a frame of dated
\* closes (it never hands back an empty frame)
NoHistory == [data |-> "None", index |-> << >>, Close |-> << >>]

History(index, Close) == [data |-> "Frame", index |-> index, Close |-> Close]

Histories ==
    {NoHistory,
     History(<<1, 2, 3>>, <<Float(100), Float(102), Float(102)>>),
     History(<<1, 3>>, <<Float(100), Float(102)>>)}

\* the frame simulated for a mutual fund: the business days of the period
\* and one drawn return for each of them.  The returns are drawn by
\* np.random.normal from NumPy's global generator, which random.seed (of the
\* standard library's generator) does not seed: a build may draw any values
FundFrame(index, Daily_Return) == [index |-> index, Daily_Return |-> Daily_Return]

FundFrames ==
    {FundFrame(<<2, 3>>, <<Percent(-1), Percent(2)>>),
     FundFrame(<<1, 2, 3>>, <<Percent(1), Percent(-1), Percent(2)>>),
     FundFrame(<<1, 2, 3>>, <<Percent(2), Percent(1), Percent(-1)>>)}

\* stock_data.calculate_stock_returns: Daily_Return = Close.pct_change()
calculate_stock_returns(data) ==
    [index |-> data.index,
     Daily_Return |->
        [i \in 1..Len(data.index) |->
            IF i = 1 THEN NaN
            ELSE FSub(FDiv(data.Close[i], data.Close[i - 1]), One)]]

\* date in frame.index, and frame.loc[date, 'Daily_Return']
InIndex(frame, date) == \E i \in 1..Len(frame.index) : frame.index[i] = date

ReturnAt(frame, date) ==
    frame.Daily_Return[CHOOSE i \in 1..Len(frame.index) : frame.index[i] = date]

\* the dict stock_data: the frames of the stocks that have data, then the
\* simulated frames of the funds (a fund code that is also a held ticker
\* takes over the ticker's entry)
StockData(history, funds) ==
    [k \in {t \in DOMAIN holdings : history[t].data # "None"} \cup DOMAIN mutual_funds |->
        IF k \in DOMAIN mutual_funds THEN funds[k]
        ELSE calculate_stock_returns(history[k])]

StockDataKeys(stock_data) ==
    Keys(DOMAIN stock_data \cap DOMAIN holdings)
        \o Keys(DOMAIN stock_data \ DOMAIN holdings)

\* max(start_dates) and min(end_dates)
StartDate_Earliest(stock_data) ==
    CHOOSE d \in {stock_data[k].index[1] : k \in DOMAIN stock_data} :
        \A k \in DOMAIN stock_data : d <= stock_data[k].index[1]

StartDate(stock_data) ==
    CHOOSE d \in {stock_data[k].index[1] : k \in DOMAIN stock_data} :
        \A k \in DOMAIN stock_data : stock_data[k].index[1] <= d

EndDate(stock_data) ==
    CHOOSE d \in {stock_data[k].index[Len(stock_data[k].index)] : k \in DOMAIN stock_data} :
        \A k \in DOMAIN stock_data : d <= stock_data[k].index[Len(stock_data[k].index)]

\* pd.date_range(start=start_date, end=end_date)
DateRange(start_date, end_date) ==
    [i \in 1..(IF end_date >= start_date THEN end_date - start_date + 1 ELSE 0) |->
        start_date + i - 1]

\* shares * avg_price, summed over a dict
RECURSIVE CostOf(_, _)
CostOf(d, keys) ==
    IF keys = << >> THEN Zero
    ELSE FAdd(FMul(d[Head(keys)].shares, d[Head(keys)].avg_price),
              CostOf(d, Tail(keys)))

TotalInvestment ==
    FAdd(CostOf(holdings, Keys(DOMAIN holdings)),
         CostOf(mutual_funds, Keys(DOMAIN mutual_funds)))

\* the weight of an entry of stock_data (total_investment is not zero)
Weight(ticker, total_investment) ==
    IF ticker \in DOMAIN holdings
    THEN FDiv(FMul(holdings[ticker].shares, holdings[ticker].avg_price),
              total_investment)
    ELSE IF ticker \in DOMAIN mutual_funds
    THEN FDiv(FMul(mutual_funds[ticker].shares, mutual_funds[ticker].avg_price),
              total_investment)
    ELSE Zero

\* the entry gets a column: its frame has a row at both ends of the window
HasColumn(data, start_date, end_date) ==
    InIndex(data, start_date) /\ InIndex(data, end_date)

\* portfolio_df[f'{ticker}_return'] at a date of the index
Weighted(data, date, weight) ==
    IF InIndex(data, date) /\ ReturnAt(data, date) # NaN
    THEN FMul(ReturnAt(data, date), weight)
    ELSE NaN

\* portfolio_df.sum(axis=1): missing values are skipped
RECURSIVE RowSum(_, _, _)
RowSum(columns, keys, i) ==
    IF keys = << >> THEN Zero
    ELSE LET rest == RowSum(columns, Tail(keys), i)
             x == columns[Head(keys)][i]
         IN IF x = NaN THEN rest ELSE FAdd(x, rest)

\* (1 + daily).cumprod() - 1
RECURSIVE CumProd(_, _)
CumProd(daily, i) ==
    IF i = 1 THEN FAdd(One, daily[1])
    ELSE FMul(CumProd(daily, i - 1), FAdd(One, daily[i]))

Cumulative_RestartsEachDay(daily) == [i \in 1..Len(daily) |-> daily[i]]

Cumulative(daily) == [i \in 1..Len(daily) |-> FSub(CumProd(daily, i), One)]

\* the frame get_portfolio_returns builds from a non-empty stock_data
PortfolioFrame(stock_data) ==
    LET start_date == StartDate(stock_data)
        end_date == EndDate(stock_data)
        index == DateRange(start_date, end_date)
        total_investment == TotalInvestment
        with == {k \in DOMAIN stock_data : HasColumn(stock_data[k], start_date, end_date)}
        columns == [k \in with |->
                        [i \in 1..Len(index) |->
                            Weighted(stock_data[k], index[i],
                                     Weight(k, total_investment))]]
        daily == [i \in 1..Len(index) |->
                    RowSum(columns, SelectSeq(StockDataKeys(stock_data),
                                              LAMBDA k : k \in with), i)]
    IN [index |-> index,
        columns |-> columns,
        Portfolio_Daily_Return |-> daily,
        Portfolio_Cumulative_Return |-> Cumulative(daily)]

NoFrame ==
    [index |-> << >>, columns |-> EmptyDict, Portfolio_Daily_Return |-> << >>,
     Portfolio_Cumulative_Return |-> << >>]

\* what a call returns: "None", "DataFrame", or "raised" when the weights
\* divide by a total investment of zero
ReturnsOutcome_NoneWhenNothingHeld(history, funds) ==
    IF DOMAIN holdings = {} /\ DOMAIN mutual_funds = {} THEN "None"
    ELSE IF DOMAIN StockData(history, funds) = {} THEN "None"
    ELSE IF TotalInvestment = Zero THEN "raised"
    ELSE "DataFrame"

ReturnsOutcome(history, funds) ==
    IF DOMAIN holdings = {} THEN "None"
    ELSE IF DOMAIN StockData(history, funds) = {} THEN "None"
    ELSE IF TotalInvestment = Zero THEN "raised"
    ELSE "DataFrame"

PortfolioReturns(history, funds) ==
    IF ReturnsOutcome(history, funds) = "DataFrame"
    THEN PortfolioFrame(StockData(history, funds))
    ELSE NoFrame

\* a call of get_portfolio_returns during which get_stock_data answers
\* history and the funds are simulated as funds
get_portfolio_returns(history, funds) ==
    \E returned \in {ReturnsOutcome(history, funds)},
       frame \in {PortfolioReturns(history, funds)} :
    /\ call' = [op |-> "get_portfolio_returns", history |-> history,
                funds |-> funds, returned |-> returned, frame |-> frame]
    /\ ret' = returned
    /\ UNCHANGED <<ledger, fund_names>>

GetPortfolioReturns ==
    \E history \in [DOMAIN holdings -> Histories],
       funds \in [DOMAIN mutual_funds -> FundFrames] :
        get_portfolio_returns(history, funds)

(***************************************************************************)
(* Portfolio.calculate_portfolio_metrics                                   *)
(***************************************************************************)
\* a metric is a number, or, where its formula takes a power, a standard
\* deviation, a square root or a percentile, the formula and the values it is
\* applied to (the formula is not evaluated)
Number(x) == [number |-> x]

Term(fn, of) == [fn |-> fn, of |-> of]

\* -inf, what a negative value divided by 0.0 gives in a pandas Series
NegInf == <<0, 3>>

\* the first t rows of series.cummax()
FloatNextMax(running_max, value) ==
    Append(running_max,
           IF running_max = << >> THEN value
           ELSE IF FGt(value, running_max[Len(running_max)]) THEN value
           ELSE running_max[Len(running_max)])

RECURSIVE FloatCummax(_, _)
FloatCummax(series, t) ==
    IF t = 0 THEN << >>
    ELSE FloatNextMax(FloatCummax(series, t - 1), series[t])

\* (value / running_max) - 1; a Series divides by 0.0 without raising:
\* 0/0 is NaN and a negative value over 0 is -inf (running_max >= value)
FallFrom(value, running_max) ==
    IF running_max = Zero
    THEN IF value = Zero THEN NaN ELSE NegInf
    ELSE FSub(FDiv(value, running_max), One)

FloatDrawdown(series, running_max) ==
    [t \in 1..Len(series) |-> FallFrom(series[t], running_max[t])]

\* the smaller of two rows of drawdown, NaN skipped
SmallerSkipNaN(a, b) ==
    IF a = NaN THEN b
    ELSE IF b = NaN THEN a
    ELSE IF a = NegInf \/ b = NegInf THEN NegInf
    ELSE IF FGt(a, b) THEN b ELSE a

\* drawdown.min() over rows 1..t: NaN if every row is NaN
RECURSIVE FloatMin(_, _)
FloatMin(drawdown, t) ==
    IF t = 1 THEN drawdown[1]
    ELSE SmallerSkipNaN(FloatMin(drawdown, t - 1), drawdown[t])

\* ((series / series.cummax()) - 1).min() of a series with a row
DeepestFall(series) ==
    FloatMin(FloatDrawdown(series, FloatCummax(series, Len(series))), Len(series))

\* x * 100
Times100(x) == IF x \in {NaN, NegInf} THEN x ELSE FMul(x, Float(100))

\* utils.performance_metrics.calculate_max_drawdown on the floats of a
\* series of daily returns: cum_returns = (1 + returns).cumprod()
FloatMaxDrawdown(returns) ==
    IF Len(returns) < 2 THEN Zero
    ELSE DeepestFall([t \in 1..Len(returns) |-> CumProd(returns, t)])

\* max_drawdown of Portfolio.calculate_portfolio_metrics:
\* cum_returns = portfolio_returns['Portfolio_Cumulative_Return']
PortfolioMaxDrawdown(frame) == DeepestFall(frame.Portfolio_Cumulative_Return)

\* the dict returned when there is no series
ZeroMetrics ==
    [annualized_return |-> Number(Zero), volatility |-> Number(Zero),
     sharpe_ratio |-> Number(Zero), max_drawdown |-> Number(Zero)]

\* the dict computed from a series
ComputedMetrics(frame) ==
    LET total_days == Len(frame.index)
        cumulative_return == frame.Portfolio_Cumulative_Return[total_days]
    IN [annualized_return |->
            Term("((1 + cumulative_return) ** (252 / total_days) - 1) * 100",
                 <<cumulative_return, total_days>>),
        volatility |->
            Term("std() * sqrt(252) * 100", <<frame.Portfolio_Daily_Return>>),
        sharpe_ratio |->
            Term("(annualized_return - 0.02) / annualized_volatility if annualized_volatility > 0 else 0",
                 <<cumulative_return, total_days, frame.Portfolio_Daily_Return>>),
        max_drawdown |-> Number(Times100(PortfolioMaxDrawdown(frame)))]

\* portfolio_returns is None or portfolio_returns.empty
NoSeries(returned, frame) == returned = "None" \/ Len(frame.index) = 0

PortfolioMetrics(returned, frame) ==
    IF returned = "raised" \/ NoSeries(returned, frame)
    THEN ZeroMetrics
    ELSE ComputedMetrics(frame)

\* a call of calculate_portfolio_metrics: it builds the series with
\* get_portfolio_returns, whose exception it lets through
calculate_portfolio_metrics(history, funds) ==
    \E returned \in {ReturnsOutcome(history, funds)},
       frame \in {PortfolioReturns(history, funds)} :
    /\ call' = [op |-> "calculate_portfolio_metrics", history |-> history,
                funds |-> funds, series |-> returned, frame |-> frame,
                returned |-> IF returned = "raised" THEN "raised" ELSE "dict",
                metrics |-> PortfolioMetrics(returned, frame)]
    /\ ret' = IF returned = "raised" THEN "raised" ELSE "dict"
    /\ UNCHANGED <<ledger, fund_names>>

CalculatePortfolioMetrics ==
    \E history \in [DOMAIN holdings -> Histories],
       funds \in [DOMAIN mutual_funds -> FundFrames] :
        calculate_portfolio_metrics(history, funds)

(***************************************************************************)
(* The ledger with its read-only calls.  The calls are made on ledgers of  *)
(* at most MaxLog transactions, built by the four operations; stocks are   *)
(* bought at any price add_position admits, zero included.                 *)
(***************************************************************************)
\* longest transaction list of a ledger that is valued
MaxLog == 2

ValuedDates == {1}

\* buy prices add_position admits, zero included
ValuedPrices == {Float(0), Float(120)}

ValuedShares == {Float(10)}

ValuedNavs == {Float(80)}

\* the fund codes of the pages are no stock tickers
FundCodes == {"F"}

BuyStock ==
    \E t \in Tickers, s \in ValuedShares, p \in ValuedPrices, d \in ValuedDates :
        add_position(t, s, p, d, "stock")

SellStock ==
    \E t \in Tickers, s \in {Float(10), Float(25)}, p \in {Float(150)},
       d \in SellDates :
        remove_position(t, s, p, d, "stock")

BuyFund ==
    \E c \in FundCodes, u \in Units, n \in ValuedNavs, d \in ValuedDates,
       f \in FundNames :
        add_mutual_fund(c, u, n, d, f)

SellFund ==
    \E c \in FundCodes, u \in SellUnits, n \in Navs, d \in SellDates :
        remove_mutual_fund(c, u, n, d)

LedgerStep ==
    /\ BuyStock \/ SellStock \/ BuyFund \/ SellFund
    /\ Len(transactions') <= MaxLog

AnalyticsNext ==
    \/ LedgerStep
    \/ GetPortfolioValue
    \/ GetPortfolioReturns
    \/ CalculatePortfolioMetrics

AnalyticsSpec == Init /\ [][AnalyticsNext]_vars

(***************************************************************************)
(* utils/performance_metrics.py.  The returns handed to these functions    *)
(* are decimal fractions, kept exactly as <<numerator, denominator>> in    *)
(* lowest terms: what the functions report differs from the exact value by *)
(* the rounding of binary64 only.                                          *)
(***************************************************************************)
\* most observations in a series of decimal returns
MaxObservations == 3

RECURSIVE Gcd(_, _)
Gcd(a, b) == IF b = 0 THEN a ELSE Gcd(b, a % b)

\* n / d in lowest terms, d > 0
Q(n, d) == LET g == Gcd(Abs(n), d) IN <<n \div g, d \div g>>

\* the least common denominator of a and b
Lcd(a, b) == (a[2] \div Gcd(a[2], b[2])) * b[2]

QAdd(a, b) ==
    Q(a[1] * (Lcd(a, b) \div a[2]) + b[1] * (Lcd(a, b) \div b[2]), Lcd(a, b))

QSub(a, b) ==
    Q(a[1] * (Lcd(a, b) \div a[2]) - b[1] * (Lcd(a, b) \div b[2]), Lcd(a, b))

\* a * b, common factors taken out before the products
QMul(a, b) ==
    LET g1 == Gcd(Abs(a[1]), b[2])
        g2 == Gcd(Abs(b[1]), a[2])
    IN Q((a[1] \div g1) * (b[1] \div g2), (a[2] \div g2) * (b[2] \div g1))

\* a <= b
QLe(a, b) == a[1] * (Lcd(a, b) \div a[2]) <= b[1] * (Lcd(a, b) \div b[2])

\* a series handed to a function: None, or a pd.Series of values
None == [given |-> FALSE, values |-> << >>]

Series(values) == [given |-> TRUE, values |-> values]

Returns == {Q(1, 100), Q(-2, 100), Q(3, 100)}

ReturnSeries ==
    {None} \cup
        {Series(v) : v \in UNION {[1..n -> Returns] : n \in 0..MaxObservations}}

BenchmarkSeries ==
    {None, Series(<<Q(1, 100)>>), Series(<<Q(1, 100), Q(2, 100), Q(-1, 100)>>)}

\* the series handed to calculate_risk_metrics: None, a gain of 1% repeated,
\* or the returns -1%, 0, 1%, 2%, -2% repeated
LongSeries ==
    {None} \cup
        {Series([i \in 1..n |-> Q(1, 100)]) : n \in {0, 1, 29, 30, 31}} \cup
        {Series([i \in 1..n |-> Q((i % 5) - 2, 100)]) :
            n \in {0, 29, 30, 41, 42, 62, 209, 210, 220}}

LongBenchmarks ==
    {None, Series([i \in 1..29 |-> Q(1, 100)]), Series([i \in 1..30 |-> Q(1, 100)])}

\* returns is None or len(returns) < least
TooFew_OnlyNone(returns, least) == ~returns.given

TooFew(returns, least) == ~returns.given \/ Len(returns.values) < least

\* (1 + returns).prod() - 1
RECURSIVE Prod(_)
Prod(values) ==
    IF values = << >> THEN Q(1, 1)
    ELSE QMul(QAdd(Q(1, 1), Head(values)), Prod(Tail(values)))

RECURSIVE TotalReturn_SumOfReturns(_)
TotalReturn_SumOfReturns(values) ==
    IF values = << >> THEN Q(0, 1)
    ELSE QAdd(Head(values), TotalReturn_SumOfReturns(Tail(values)))

TotalReturn(values) == QSub(Prod(values), Q(1, 1))

\* rows left by pd.DataFrame({...}).dropna(): the observations both series have
Aligned2(returns, benchmark_returns) ==
    LET n == IF Len(returns.values) < Len(benchmark_returns.values)
             THEN Len(returns.values) ELSE Len(benchmark_returns.values)
    IN <<SubSeq(returns.values, 1, n), SubSeq(benchmark_returns.values, 1, n)>>

\* calculate_alpha_beta and calculate_information_ratio: 0 without two
\* aligned observations of both series
BenchmarkMetric(fn, returns, benchmark_returns) ==
    IF \/ TooFew(returns, 2)
       \/ TooFew(benchmark_returns, 2)
       \/ Len(Aligned2(returns, benchmark_returns)[1]) < 2
    THEN Number(Q(0, 1))
    ELSE Term(fn, Aligned2(returns, benchmark_returns))

(***************************************************************************)
(* calculate_max_drawdown                                                  *)
(***************************************************************************)
\* a / b for b # 0, common factors taken out before the products
QDiv(a, b) ==
    LET g1   == Gcd(Abs(a[1]), Abs(b[1]))
        g2   == Gcd(a[2], b[2])
        sign == IF b[1] < 0 THEN -1 ELSE 1
    IN Q(sign * (a[1] \div g1) * (b[2] \div g2),
         (a[2] \div g2) * (Abs(b[1]) \div g1))

\* the greater and the smaller of a and b
QMax(a, b) == IF QLe(a, b) THEN b ELSE a

QMin(a, b) == IF QLe(a, b) THEN a ELSE b

\* the first t rows of (1 + returns).cumprod()
NextProduct(cum_returns, return) ==
    Append(cum_returns,
           QMul(IF cum_returns = << >> THEN Q(1, 1)
                ELSE cum_returns[Len(cum_returns)],
                QAdd(Q(1, 1), return)))

RECURSIVE Cumprod(_, _)
Cumprod(values, t) ==
    IF t = 0 THEN << >> ELSE NextProduct(Cumprod(values, t - 1), values[t])

CumReturns(values) == Cumprod(values, Len(values))

\* the first t rows of cum_returns.cummax()
NextMax_OfFirstRow(running_max, cum_return) ==
    Append(running_max,
           IF running_max = << >> THEN cum_return ELSE running_max[1])

NextMax(running_max, cum_return) ==
    Append(running_max,
           IF running_max = << >> THEN cum_return
           ELSE QMax(running_max[Len(running_max)], cum_return))

RECURSIVE Cummax(_, _)
Cummax(cum_returns, t) ==
    IF t = 0 THEN << >> ELSE NextMax(Cummax(cum_returns, t - 1), cum_returns[t])

\* drawdown = (cum_returns / running_max) - 1
Ratios(cum_returns, running_max) ==
    [t \in 1..Len(cum_returns) |->
        QSub(QDiv(cum_returns[t], running_max[t]), Q(1, 1))]

Drawdown(cum_returns) ==
    Ratios(cum_returns, Cummax(cum_returns, Len(cum_returns)))

\* drawdown.min() over rows 1..t
RECURSIVE DrawdownMin(_, _)
DrawdownMin(drawdown, t) ==
    IF t = 1 THEN drawdown[1]
    ELSE QMin(DrawdownMin(drawdown, t - 1), drawdown[t])

\* what calculate_max_drawdown returns
MaxDrawdown(returns) ==
    IF TooFew(returns, 2)
    THEN Q(0, 1)
    ELSE DrawdownMin(Drawdown(CumReturns(returns.values)), Len(returns.values))

calculate_max_drawdown(returns) ==
    /\ call' = [op |-> "calculate_max_drawdown", returns |-> returns,
                max_drawdown |-> Number(MaxDrawdown(returns))]
    /\ ret' = "float"
    /\ UNCHANGED <<ledger, fund_names>>

CalculateMaxDrawdown ==
    \E returns \in ReturnSeries : calculate_max_drawdown(returns)

(***************************************************************************)
(* calculate_sortino_ratio                                                 *)
(***************************************************************************)
\* rf_daily = (1 + 0.02) ** (1/252) - 1 = 0.0000785..., here 11/140000
RfDaily == Q(11, 140000)

\* the series handed to calculate_sortino_ratio; 1/20000 is a gain smaller
\* than rf_daily
SortinoReturns == {Q(1, 20000), Q(1, 100), Q(-2, 100)}

SortinoSeries ==
    {None} \cup
        {Series(v) : v \in UNION {[1..n -> SortinoReturns] : n \in 0..MaxObservations}}

\* excess_returns = returns - rf_daily
ExcessReturns(values) == [i \in 1..Len(values) |-> QSub(values[i], RfDaily)]

\* excess_returns[excess_returns < 0]
RECURSIVE NegativeReturns(_)
NegativeReturns(excess_returns) ==
    IF excess_returns = << >> THEN << >>
    ELSE IF Head(excess_returns)[1] < 0
         THEN <<Head(excess_returns)>> \o NegativeReturns(Tail(excess_returns))
         ELSE NegativeReturns(Tail(excess_returns))

\* np.sqrt(np.mean(negative_returns ** 2)) if len(negative_returns) > 0 else 0.0001
DownsideDeviation_NoFloor(negative_returns) ==
    IF Len(negative_returns) > 0
    THEN Term("np.sqrt(np.mean(negative_returns ** 2))", <<negative_returns>>)
    ELSE Number(Q(0, 1))

DownsideDeviation(negative_returns) ==
    IF Len(negative_returns) > 0
    THEN Term("np.sqrt(np.mean(negative_returns ** 2))", <<negative_returns>>)
    ELSE Number(Q(1, 10000))

\* what calculate_sortino_ratio returns (risk_free_rate = 0.02)
SortinoRatio(returns) ==
    IF TooFew(returns, 2)
    THEN Number(Q(0, 1))
    ELSE Term("excess_returns.mean() / downside_deviation * np.sqrt(252)",
              <<ExcessReturns(returns.values),
                DownsideDeviation(NegativeReturns(ExcessReturns(returns.values)))>>)

calculate_sortino_ratio(returns) ==
    /\ call' = [op |-> "calculate_sortino_ratio", returns |-> returns,
                downside_deviation |->
                    IF TooFew(returns, 2)
                    THEN Number(Q(0, 1))
                    ELSE DownsideDeviation(
                             NegativeReturns(ExcessReturns(returns.values))),
                ratio |-> SortinoRatio(returns)]
    /\ ret' = "float"
    /\ UNCHANGED <<ledger, fund_names>>

CalculateSortinoRatio ==
    \E returns \in SortinoSeries : calculate_sortino_ratio(returns)

(***************************************************************************)
(* calculate_performance_metrics and calculate_risk_metrics                *)
(***************************************************************************)
ZeroPerformance ==
    [total_return |-> Number(Q(0, 1)), annualized_return |-> Number(Q(0, 1)),
     volatility |-> Number(Q(0, 1)), sharpe_ratio |-> Number(Q(0, 1)),
     sortino_ratio |-> Number(Q(0, 1)), max_drawdown |-> Number(Q(0, 1)),
     alpha |-> Number(Q(0, 1)), beta |-> Number(Q(0, 1)),
     information_ratio |-> Number(Q(0, 1))]

\* benchmark_returns is not None
HasBenchmark(benchmark_returns) == benchmark_returns.given

\* the dict calculate_performance_metrics returns (risk_free_rate = 0.02)
PerformanceMetrics_NothingWithoutBenchmark(returns, benchmark_returns) ==
    IF TooFew(returns, 2) \/ ~HasBenchmark(benchmark_returns)
    THEN ZeroPerformance
    ELSE [ZeroPerformance EXCEPT
            !.total_return = Number(QMul(TotalReturn(returns.values), Q(100, 1))),
            !.alpha = BenchmarkMetric("alpha * 252 * 100", returns, benchmark_returns)]

PerformanceMetrics(returns, benchmark_returns) ==
    IF TooFew(returns, 2)
    THEN ZeroPerformance
    ELSE [total_return |->
              Number(QMul(TotalReturn(returns.values), Q(100, 1))),
          annualized_return |->
              Term("((1 + total_return) ** (1 / num_years) - 1) * 100",
                   <<TotalReturn(returns.values), Len(returns.values)>>),
          volatility |->
              Term("std() * sqrt(252) * 100", <<returns.values>>),
          sharpe_ratio |->
              Term("calculate_sharpe_ratio", <<returns.values, Q(2, 100)>>),
          sortino_ratio |-> SortinoRatio(returns),
          max_drawdown |->
              Term("calculate_max_drawdown * 100", <<returns.values>>),
          alpha |->
              IF HasBenchmark(benchmark_returns)
              THEN BenchmarkMetric("alpha * 252 * 100", returns, benchmark_returns)
              ELSE Number(Q(0, 1)),
          beta |->
              IF HasBenchmark(benchmark_returns)
              THEN BenchmarkMetric("covariance / variance if variance > 0 else 0",
                                   returns, benchmark_returns)
              ELSE Number(Q(0, 1)),
          information_ratio |->
              IF HasBenchmark(benchmark_returns)
              THEN BenchmarkMetric("calculate_information_ratio",
                                   returns, benchmark_returns)
              ELSE Number(Q(0, 1))]

ZeroRisk ==
    [daily_var_95 |-> Number(Q(0, 1)), daily_var_99 |-> Number(Q(0, 1)),
     monthly_var_95 |-> Number(Q(0, 1)), monthly_var_99 |-> Number(Q(0, 1)),
     downside_deviation |-> Number(Q(0, 1)),
     monthly_volatility |-> Number(Q(0, 1)),
     correlation_to_market |-> Number(Q(0, 1))]

\* monthly_returns: (1 + portfolio_returns.iloc[i:i+21]).prod() - 1 for i in
\* range(0, len(portfolio_returns), 21) if i + 21 <= len(portfolio_returns),
\* from i on
RECURSIVE MonthlyBlocks_KeepsPartialBlock(_, _)
MonthlyBlocks_KeepsPartialBlock(values, i) ==
    IF i >= Len(values) THEN << >>
    ELSE <<Term("(1 + block).prod() - 1",
                <<SubSeq(values, i + 1,
                         IF i + 21 <= Len(values) THEN i + 21 ELSE Len(values))>>)>>
            \o MonthlyBlocks_KeepsPartialBlock(values, i + 21)

RECURSIVE MonthlyBlocks(_, _)
MonthlyBlocks(values, i) ==
    IF i >= Len(values) THEN << >>
    ELSE IF i + 21 <= Len(values)
         THEN <<Term("(1 + block).prod() - 1", <<SubSeq(values, i + 1, i + 21)>>)>>
                  \o MonthlyBlocks(values, i + 21)
         ELSE MonthlyBlocks(values, i + 21)

MonthlyReturns(values) == MonthlyBlocks(values, 0)

\* the monthly VaR and the monthly volatility, given monthly_returns
MonthlyVar(percentile, values, monthly_returns) ==
    IF Len(monthly_returns) >= 10
    THEN Term("abs(np.percentile(monthly_returns, percentile)) * 100",
              <<percentile, monthly_returns>>)
    ELSE Term("abs(np.percentile(portfolio_returns, percentile) * np.sqrt(21)) * 100",
              <<percentile, values>>)

MonthlyVolatility(monthly_returns) ==
    IF Len(monthly_returns) >= 10
    THEN Term("np.std(monthly_returns) * np.sqrt(12) * 100 if monthly_volatility else 0",
              <<monthly_returns>>)
    ELSE Number(Q(0, 1))

\* the dict calculate_risk_metrics returns
RiskMetrics(portfolio_returns, benchmark_returns) ==
    IF TooFew(portfolio_returns, 30)
    THEN ZeroRisk
    ELSE [daily_var_95 |->
              Term("abs(np.percentile(portfolio_returns, 5)) * 100",
                   <<portfolio_returns.values>>),
          daily_var_99 |->
              Term("abs(np.percentile(portfolio_returns, 1)) * 100",
                   <<portfolio_returns.values>>),
          monthly_var_95 |->
              MonthlyVar(5, portfolio_returns.values,
                         MonthlyReturns(portfolio_returns.values)),
          monthly_var_99 |->
              MonthlyVar(1, portfolio_returns.values,
                         MonthlyReturns(portfolio_returns.values)),
          downside_deviation |->
              IF \E i \in DOMAIN portfolio_returns.values :
                     portfolio_returns.values[i][1] < 0
              THEN Term("np.sqrt(np.mean(negative_returns ** 2)) * np.sqrt(252) * 100",
                        <<portfolio_returns.values>>)
              ELSE Number(Q(0, 1)),
          monthly_volatility |->
              MonthlyVolatility(MonthlyReturns(portfolio_returns.values)),
          correlation_to_market |->
              IF ~TooFew(benchmark_returns, 30)
                 /\ Len(Aligned2(portfolio_returns, benchmark_returns)[1]) >= 30
              THEN Term("corr", Aligned2(portfolio_returns, benchmark_returns))
              ELSE Number(Q(0, 1))]

calculate_performance_metrics(returns, benchmark_returns) ==
    /\ call' = [op |-> "calculate_performance_metrics", returns |-> returns,
                benchmark_returns |-> benchmark_returns,
                metrics |-> PerformanceMetrics(returns, benchmark_returns)]
    /\ ret' = "dict"
    /\ UNCHANGED <<ledger, fund_names>>

calculate_risk_metrics(portfolio_returns, benchmark_returns) ==
    /\ call' = [op |-> "calculate_risk_metrics", returns |-> portfolio_returns,
                benchmark_returns |-> benchmark_returns,
                monthly_returns |->
                    IF TooFew(portfolio_returns, 30) THEN << >>
                    ELSE MonthlyReturns(portfolio_returns.values),
                metrics |-> RiskMetrics(portfolio_returns, benchmark_returns)]
    /\ ret' = "dict"
    /\ UNCHANGED <<ledger, fund_names>>

CalculatePerformanceMetrics ==
    \E returns \in ReturnSeries, benchmark_returns \in BenchmarkSeries :
        calculate_performance_metrics(returns, benchmark_returns)

CalculateRiskMetrics ==
    \E portfolio_returns \in LongSeries, benchmark_returns \in LongBenchmarks :
        calculate_risk_metrics(portfolio_returns, benchmark_returns)

MetricsNext ==
    \/ CalculatePerformanceMetrics
    \/ CalculateRiskMetrics
    \/ CalculateSortinoRatio
    \/ CalculateMaxDrawdown

MetricsSpec == Init /\ [][MetricsNext]_vars

(***************************************************************************)
(* The ledger with quantities whose sums are not representable.  The pages *)
(* pass quantities in steps of 0.01 (shares) and 0.001 (units), most of    *)
(* which binary64 rounds: 0.1 + 0.2 is 0.30000000000000004.  With a        *)
(* significand of Precision bits the integers from 2^Precision on play     *)
(* that part.                                                              *)
(***************************************************************************)
RoundedShares == {Float(Pow2(Precision) - 2), Float(3)}

RoundedSellShares == {Float(1), Float(3)}

RoundedPrices == {Float(100)}

BuyRounded ==
    \E t \in Tickers, s \in RoundedShares, p \in RoundedPrices, d \in ValuedDates :
        add_position(t, s, p, d, "stock")

SellRounded ==
    \E t \in Tickers, s \in RoundedSellShares, p \in RoundedPrices, d \in SellDates :
        remove_position(t, s, p, d, "stock")

BuyRoundedFund ==
    \E c \in Tickers, u \in RoundedShares, n \in RoundedPrices, d \in ValuedDates,
       f \in FundNames :
        add_mutual_fund(c, u, n, d, f)

SellRoundedFund ==
    \E c \in Tickers, u \in RoundedSellShares, n \in RoundedPrices, d \in SellDates :
        remove_mutual_fund(c, u, n, d)

RoundedNext == BuyRounded \/ SellRounded \/ BuyRoundedFund \/ SellRoundedFund

RoundedSpec == Init /\ [][RoundedNext]_vars

(***************************************************************************)
(* utils/performance_metrics.py, calculate_sector_allocation.  It is given *)
(* the dict get_portfolio_value returns; the sector of a ticker comes from *)
(* stock_data.get_stock_info, which asks the quote provider.               *)
(***************************************************************************)
\* most stock positions in a snapshot
MaxPositions == 3

SectorTickers == {"A", "B", "C", "D"}

\* what get_stock_info(ticker)['sector'] answers, for each ticker: a sector of
\* the provider, 'N/A' where it names none
SectorLookups ==
    {[A |-> "IT", B |-> "IT", C |-> "Energy", D |-> "Energy"],
     [A |-> "IT", B |-> "Energy", C |-> "IT", D |-> "N/A"]}

\* the position of 10 shares bought at 100 and quoted at current_price
SectorStock(ticker, current_price) ==
    StockValue(ticker, [shares |-> Float(10), avg_price |-> Float(100)],
               current_price)

SectorPrices == {Float(100), Float(300)}

\* the stock positions of a snapshot: some tickers, each with a quote
RECURSIVE SectorStocks(_, _)
SectorStocks(keys, prices) ==
    IF keys = << >> THEN << >>
    ELSE <<SectorStock(Head(keys), prices[Head(keys)])>>
            \o SectorStocks(Tail(keys), prices)

SectorStockLists ==
    UNION {{SectorStocks(Keys(held), prices) : prices \in [held -> SectorPrices]} :
                held \in {h \in SUBSET SectorTickers : Cardinality(h) <= MaxPositions}}

\* the mutual fund positions of a snapshot: none, or 10 units bought at 80
SectorFundLists ==
    {<< >>,
     <<FundValue("F", [shares |-> Float(10), avg_price |-> Float(80)], Float(1))>>}

\* the snapshots handed to calculate_sector_allocation
SectorSnapshots ==
    {Totalled(positions, mutual_fund_positions) :
        positions \in SectorStockLists, mutual_fund_positions \in SectorFundLists}

\* sector_data[sector] += weight, or sector_data[sector] = weight for a
\* sector met for the first time; a dict keeps its keys in insertion order
Accumulate_NoMerge(sector_data, sector, weight) ==
    Append(sector_data, [sector |-> sector, weight |-> weight])

Accumulate(sector_data, sector, weight) ==
    IF \E i \in 1..Len(sector_data) : sector_data[i].sector = sector
    THEN [i \in 1..Len(sector_data) |->
            IF sector_data[i].sector = sector
            THEN [sector |-> sector, weight |-> FAdd(sector_data[i].weight, weight)]
            ELSE sector_data[i]]
    ELSE Append(sector_data, [sector |-> sector, weight |-> weight])

\* pos['current_value'] / total_value
PositionWeight(current_value, total_value) ==
    IF total_value = Zero THEN ZeroDivisionError
    ELSE FDiv(current_value, total_value)

\* sector_data after the loop over positions
RECURSIVE SectorData(_, _, _, _)
SectorData(sector_data, positions, total_value, lookup) ==
    IF positions = << >> THEN sector_data
    ELSE SectorData(Accumulate(sector_data, lookup[Head(positions).ticker],
                               PositionWeight(Head(positions).current_value,
                                              total_value)),
                    Tail(positions), total_value, lookup)

\* the lists made of sector_data
SectorLists(sector_data) ==
    [sectors |-> [i \in 1..Len(sector_data) |-> sector_data[i].sector],
     weights |-> [i \in 1..Len(sector_data) |->
                    FMul(sector_data[i].weight, Float(100))]]

\* the dict calculate_sector_allocation returns;
\* total_value = sum(pos['current_value'] for pos in positions)
SectorAllocation(portfolio, lookup) ==
    IF portfolio.positions = << >>
    THEN [sectors |-> << >>, weights |-> << >>]
    ELSE SectorLists(SectorData(<< >>, portfolio.positions,
                                Total(Zero, portfolio.positions, "current_value"),
                                lookup))

calculate_sector_allocation(portfolio, lookup) ==
    /\ call' = [op |-> "calculate_sector_allocation", portfolio |-> portfolio,
                lookup |-> lookup,
                allocation |-> SectorAllocation(portfolio, lookup)]
    /\ ret' = IF /\ portfolio.positions # << >>
                 /\ Total(Zero, portfolio.positions, "current_value") = Zero
              THEN "raised" ELSE "dict"
    /\ UNCHANGED <<ledger, fund_names>>

CalculateSectorAllocation ==
    \E portfolio \in SectorSnapshots, lookup \in SectorLookups :
        calculate_sector_allocation(portfolio, lookup)

SectorNext == CalculateSectorAllocation

SectorSpec == Init /\ [][SectorNext]_vars

(***************************************************************************)
(* Vocabulary of the properties.                                           *)
(***************************************************************************)
\* the calls that add_position serves, and those that remove_position serves
BuyCalls ==
    (Tickers \X Shares \X Prices \X Dates \X {"stock"})
        \cup (Tickers \X Units \X Navs \X Dates \X {"mutual_fund"})

SellCalls ==
    (Tickers \X SellShares \X SellPrices \X SellDates \X {"stock"})
        \cup (Tickers \X SellUnits \X Navs \X SellDates \X {"mutual_fund"})

\* the shares of a ticker in a dictionary, zero when it has no position
HeldShares(asset_type, ticker) ==
    IF ticker \in DOMAIN HoldingsDict(asset_type)
    THEN HoldingsDict(asset_type)[ticker].shares
    ELSE Zero

\* the dictionary of an asset type at the end of the step
HoldingsDictAfter(asset_type) ==
    IF asset_type = "mutual_fund" THEN mutual_funds' ELSE holdings'

\* the step appended one record to the transaction list
Appended ==
    /\ Len(transactions') = Len(transactions) + 1
    /\ SubSeq(transactions', 1, Len(transactions)) = transactions

\* the places in the list of the buys and of the sells of an instrument
BuysOf(asset_type, ticker) ==
    {i \in 1..Len(transactions) :
        /\ transactions[i].ticker = ticker
        /\ transactions[i].asset_type = asset_type
        /\ transactions[i].action = "buy"}

SellsOf(asset_type, ticker) ==
    {i \in 1..Len(transactions) :
        /\ transactions[i].ticker = ticker
        /\ transactions[i].asset_type = asset_type
        /\ transactions[i].action = "sell"}

\* transactions[i] is a record of the stock A with these fields
StockRecord(i, action, shares, price) ==
    /\ transactions[i].ticker = "A"
    /\ transactions[i].asset_type = "stock"
    /\ transactions[i].action = action
    /\ transactions[i].shares = Float(shares)
    /\ transactions[i].price = Float(price)

(***************************************************************************)
(* C1                                                                      *)
(***************************************************************************)
C1_RejectedStep ==
    \A <<t, s, p, d, a>> \in SellCalls :
        (/\ \/ t \notin DOMAIN HoldingsDict(a)
            \/ FGt(s, HoldingsDict(a)[t].shares)
         /\ remove_position(t, s, p, d, a))
        => /\ ret' = "False"
           /\ UNCHANGED ledger

\* C1: remove_position (and with it remove_mutual_fund) on an instrument that
\* has no position in the chosen dictionary, or for more shares than are held,
\* returns False and leaves holdings, mutual_funds and transactions as they were.
C1_RejectedSellChangesNothing == [][C1_RejectedStep]_vars

\* a sell was rejected while the stock A held 20 shares at 110 and the fund A
\* was held too: the rejected call asked for more than was held
C1_Witness ==
    /\ ret = "False"
    /\ "A" \in DOMAIN holdings
    /\ holdings["A"].shares = Float(20)
    /\ holdings["A"].avg_price = Float(110)
    /\ "A" \in DOMAIN mutual_funds

(***************************************************************************)
(* C2                                                                      *)
(***************************************************************************)
\* C2: after any sequence of add_position and remove_position calls with
\* shares > 0 and price > 0, every stored position has shares >= 0.
C2_SharesNeverNegative ==
    \A a \in AssetTypes : \A t \in DOMAIN HoldingsDict(a) :
        FLe(Zero, HoldingsDict(a)[t].shares)

\* a position is left after buys and a sell
C2_Witness ==
    /\ Len(transactions) = 3
    /\ StockRecord(3, "sell", 10, 150)
    /\ "A" \in DOMAIN holdings
    /\ FGt(holdings["A"].shares, Zero)

(***************************************************************************)
(* C3                                                                      *)
(***************************************************************************)
C3_BuyStep ==
    Len(transactions') > Len(transactions) =>
        LET r   == transactions'[Len(transactions')]
            t   == r.ticker
            old == HoldingsDict(r.asset_type)
            new == HoldingsDictAfter(r.asset_type)
        IN AddToLedger(t, r.shares, r.price, r.date, r.asset_type) =>
               /\ t \in DOMAIN new
               /\ IF t \in DOMAIN old
                  THEN /\ new[t].shares = FAdd(old[t].shares, r.shares)
                       /\ new[t].avg_price =
                              FDiv(FAdd(FMul(old[t].shares, old[t].avg_price),
                                        FMul(r.shares, r.price)),
                                   FAdd(old[t].shares, r.shares))
                  ELSE /\ new[t].shares = r.shares
                       /\ new[t].avg_price = r.price

C3_ScenarioA ==
    (/\ Len(transactions) = 2
     /\ StockRecord(1, "buy", 10, 100)
     /\ StockRecord(2, "buy", 10, 120))
    => /\ holdings["A"].shares = Float(20)
       /\ holdings["A"].avg_price = Float(110)

\* C3: a buy of an instrument that has a position sets shares to
\* old shares + shares and avg_price to
\* (old shares * old avg_price + shares * price) / (old shares + shares), each
\* operation being the float operation; a buy of an instrument without a
\* position creates one with the given shares and avg_price = price; buying
\* 10 at 100 and then 10 at 120 gives 20 shares at 110.
C3_BuySetsSharesAndAverage == []C3_ScenarioA /\ [][C3_BuyStep]_vars

\* 10 bought at 100, then 10 at 120
C3_Witness ==
    /\ Len(transactions) = 2
    /\ StockRecord(1, "buy", 10, 100)
    /\ StockRecord(2, "buy", 10, 120)
    /\ holdings["A"].avg_price = Float(110)

(***************************************************************************)
(* C4                                                                      *)
(***************************************************************************)
\* C4: after any sequence of buys of one instrument (no sell of it), the
\* avg_price of its position lies between the lowest and the highest of the
\* buy prices, inclusive.
C4_AverageWithinBuyPrices ==
    \A a \in AssetTypes : \A t \in DOMAIN HoldingsDict(a) :
        SellsOf(a, t) = {} =>
            /\ \E i \in BuysOf(a, t) :
                   FLe(transactions[i].price, HoldingsDict(a)[t].avg_price)
            /\ \E i \in BuysOf(a, t) :
                   FLe(HoldingsDict(a)[t].avg_price, transactions[i].price)

(***************************************************************************)
(* C5                                                                      *)
(***************************************************************************)
C5_SellStep ==
    \A <<t, s, p, d, a>> \in SellCalls :
        (/\ t \in DOMAIN HoldingsDict(a)
         /\ t \in DOMAIN HoldingsDictAfter(a)
         /\ remove_position(t, s, p, d, a))
        => HoldingsDictAfter(a)[t].avg_price = HoldingsDict(a)[t].avg_price

C5_ScenarioC ==
    (/\ Len(transactions) = 3
     /\ StockRecord(1, "buy", 10, 100)
     /\ StockRecord(2, "buy", 10, 120)
     /\ StockRecord(3, "sell", 10, 150))
    => /\ holdings["A"].shares = Float(10)
       /\ holdings["A"].avg_price = Float(110)

\* C5: a successful remove_position that leaves the position in place does
\* not change its avg_price, whatever the sell price; selling 10 at 150 from
\* 20 shares at 110 leaves 10 shares at 110.
C5_SellKeepsAverage == []C5_ScenarioC /\ [][C5_SellStep]_vars

\* 10 sold at 150 from the 20 shares bought at 100 and at 120
C5_Witness ==
    /\ Len(transactions) = 3
    /\ StockRecord(1, "buy", 10, 100)
    /\ StockRecord(2, "buy", 10, 120)
    /\ StockRecord(3, "sell", 10, 150)
    /\ ret = "True"
    /\ holdings["A"].avg_price = Float(110)

(***************************************************************************)
(* C6                                                                      *)
(***************************************************************************)
C6_SellStep ==
    \A <<t, s, p, d, a>> \in SellCalls :
        (/\ t \in DOMAIN HoldingsDict(a)
         /\ FLe(s, HoldingsDict(a)[t].shares)
         /\ remove_position(t, s, p, d, a))
        => /\ ret' = "True"
           /\ HeldShares(a, t)' = FSub(HeldShares(a, t), s)
           /\ Appended
           /\ transactions'[Len(transactions')].action = "sell"

\* C6: remove_position with 0 < shares <= held shares (held shares exactly
\* included) returns True, leaves held shares - shares (the float
\* difference; no position when it is zero), and appends exactly one sell
\* record.
C6_ValidSellSucceeds == [][C6_SellStep]_vars

\* all 20 shares of a position sold in one call
C6_Witness ==
    /\ Len(transactions) = 2
    /\ StockRecord(1, "buy", 20, 100)
    /\ StockRecord(2, "sell", 20, 150)
    /\ ret = "True"
    /\ "A" \notin DOMAIN holdings

(***************************************************************************)
(* C7                                                                      *)
(***************************************************************************)
C7_LogStep ==
    /\ transactions' = transactions \/ Appended
    /\ \A <<t, s, p, d, a>> \in BuyCalls :
           AddToLedger(t, s, p, d, a) =>
               transactions' = Append(transactions,
                   [ticker |-> t, action |-> "buy", shares |-> s,
                    price |-> p, date |-> d, asset_type |-> a])
    /\ \A <<t, s, p, d, a>> \in SellCalls :
           (ret' = "True" /\ remove_position(t, s, p, d, a)) =>
               transactions' = Append(transactions,
                   [ticker |-> t, action |-> "sell", shares |-> s,
                    price |-> p, date |-> d, asset_type |-> a])

\* C7: the transaction list is append-only: every add_position and every
\* successful remove_position appends one record at the end, holding the
\* call's ticker, action, shares, price, date and asset type, and every step
\* leaves the records already there as they are, in their order.
C7_LogAppendOnly == [][C7_LogStep]_vars

\* a full list: two buys and a sell, of different dates
C7_Witness ==
    /\ Len(transactions) = 3
    /\ StockRecord(1, "buy", 10, 100)
    /\ transactions[1].date = 1
    /\ StockRecord(2, "buy", 20, 120)
    /\ transactions[2].date = 2
    /\ StockRecord(3, "sell", 20, 150)

(***************************************************************************)
(* C8                                                                      *)
(***************************************************************************)
C8_NoEmptyPosition ==
    \A a \in AssetTypes : \A t \in DOMAIN HoldingsDict(a) :
        HoldingsDict(a)[t].shares # Zero

C8_LifecycleStep ==
    \A a \in AssetTypes, t \in Tickers :
        LET old  == HoldingsDict(a)
            new  == HoldingsDictAfter(a)
            n    == Len(transactions')
            Recorded(action) ==
                /\ Appended
                /\ transactions'[n].ticker = t
                /\ transactions'[n].asset_type = a
                /\ transactions'[n].action = action
        IN \* created by a buy, and by every buy of an instrument not held
           /\ (t \notin DOMAIN old /\ t \in DOMAIN new) => Recorded("buy")
           /\ (t \notin DOMAIN old /\ Recorded("buy")) => t \in DOMAIN new
           \* deleted by a sell of all its shares, and by every such sell
           /\ (t \in DOMAIN old /\ t \notin DOMAIN new) =>
                  /\ Recorded("sell")
                  /\ transactions'[n].shares = old[t].shares
           /\ (t \in DOMAIN old /\ Recorded("sell")) =>
                  (t \notin DOMAIN new <=> transactions'[n].shares = old[t].shares)

\* C8: a position is created by the first buy of its instrument, a sell of
\* less than its shares leaves it in place, and it is deleted exactly when a
\* sell takes its shares to zero; no position with zero shares is stored.
C8_PositionLifecycle == []C8_NoEmptyPosition /\ [][C8_LifecycleStep]_vars

\* bought, reduced, removed
C8_Witness ==
    /\ Len(transactions) = 3
    /\ StockRecord(1, "buy", 20, 100)
    /\ StockRecord(2, "sell", 10, 150)
    /\ StockRecord(3, "sell", 10, 150)
    /\ "A" \notin DOMAIN holdings

(***************************************************************************)
(* C9                                                                      *)
(***************************************************************************)
C9_DateStep ==
    \A a \in AssetTypes, t \in Tickers :
        (t \in DOMAIN HoldingsDict(a) /\ t \in DOMAIN HoldingsDictAfter(a)) =>
            HoldingsDictAfter(a)[t].purchase_date = HoldingsDict(a)[t].purchase_date

\* C9: a buy of an instrument that has a position leaves the stored
\* purchase_date as it was, whatever date the buy carries, and so does a sell.
C9_DateKept == [][C9_DateStep]_vars

\* a position of date 1 after a second buy of date 2 and a sell
C9_Witness ==
    /\ Len(transactions) = 3
    /\ StockRecord(1, "buy", 10, 100)
    /\ transactions[1].date = 1
    /\ StockRecord(2, "buy", 10, 120)
    /\ transactions[2].date = 2
    /\ StockRecord(3, "sell", 10, 150)
    /\ holdings["A"].purchase_date = 1

(***************************************************************************)
(* C10                                                                     *)
(***************************************************************************)
\* the shares of an instrument after the first n records
RECURSIVE SharesAfter(_, _, _)
SharesAfter(n, asset_type, ticker) ==
    IF n = 0 THEN Zero
    ELSE LET r      == transactions[n]
             before == SharesAfter(n - 1, asset_type, ticker)
         IN IF r.ticker # ticker \/ r.asset_type # asset_type THEN before
            ELSE IF r.action = "buy" THEN FAdd(before, r.shares)
            ELSE FSub(before, r.shares)

\* the buy that created the position now held: the last buy that found none
OpeningBuy(asset_type, ticker) ==
    CHOOSE i \in BuysOf(asset_type, ticker) :
        /\ SharesAfter(i - 1, asset_type, ticker) = Zero
        /\ \A j \in BuysOf(asset_type, ticker) :
               j > i => SharesAfter(j - 1, asset_type, ticker) # Zero

\* the buys that make up the position now held
BuysHeld(asset_type, ticker) ==
    {i \in BuysOf(asset_type, ticker) : i >= OpeningBuy(asset_type, ticker)}

\* C10 as claimed: the stored purchase_date is the earliest date among the
\* buys that make up the position.
C10_DateIsEarliest ==
    \A a \in AssetTypes : \A t \in DOMAIN HoldingsDict(a) :
        \A i \in BuysHeld(a, t) :
            HoldingsDict(a)[t].purchase_date <= transactions[i].date

\* C10 amended: the stored purchase_date is the date of the buy that created
\* the position, the first of the buys that make it up, also when a later
\* buy carries an earlier date.
C10_DateIsOpeningBuy ==
    \A a \in AssetTypes : \A t \in DOMAIN HoldingsDict(a) :
        /\ BuysHeld(a, t) # {}
        /\ HoldingsDict(a)[t].purchase_date = transactions[OpeningBuy(a, t)].date

\* a position of date 2 whose second buy carries date 1
C10_Witness ==
    /\ Len(transactions) = 2
    /\ StockRecord(1, "buy", 10, 100)
    /\ transactions[1].date = 2
    /\ StockRecord(2, "buy", 10, 120)
    /\ transactions[2].date = 1
    /\ holdings["A"].purchase_date = 2

(***************************************************************************)
(* Vocabulary of the valuation properties.                                 *)
(***************************************************************************)
\* the last call was get_portfolio_value and it returned its dict
Valued == call.op = "get_portfolio_value" /\ ~call.raised

\* quantity, average price and current price of a listed position
Quantity(p) == IF p.asset_type = "stock" THEN p.shares ELSE p.units

AvgPrice(p) == IF p.asset_type = "stock" THEN p.avg_price ELSE p.avg_nav

CurrentPrice(p) == IF p.asset_type = "stock" THEN p.current_price ELSE p.current_nav

\* the sum of a field over listed positions
RECURSIVE SumOf(_, _)
SumOf(positions, field) ==
    IF positions = << >> THEN Zero
    ELSE FAdd(Head(positions)[field], SumOf(Tail(positions), field))

\* the stock ticker, or the fund fund_code, is listed in the dict returned
Listed(value, asset_type, ticker) ==
    \E i \in 1..Len(value.all_positions) :
        /\ value.all_positions[i].ticker = ticker
        /\ value.all_positions[i].asset_type = asset_type

(***************************************************************************)
(* C11                                                                     *)
(***************************************************************************)
\* C11: in the dict get_portfolio_value returns, every listed position has
\* the quantity and average price of the ledger, cost_basis = quantity *
\* avg_price, current_value = quantity * current_price and gain_loss =
\* current_value - cost_basis; the listed positions are the stock positions
\* followed by the fund positions, total_value is the sum of their
\* current_value, total_cost the sum of their cost_basis, and
\* total_gain_loss = total_value - total_cost.
C11_ValuationConsistent ==
    Valued =>
        LET value == call.value IN
        /\ value.all_positions = value.positions \o value.mutual_fund_positions
        /\ \A i \in 1..Len(value.all_positions) :
            LET p == value.all_positions[i] IN
            /\ p.ticker \in DOMAIN HoldingsDict(p.asset_type)
            /\ Quantity(p) = HoldingsDict(p.asset_type)[p.ticker].shares
            /\ AvgPrice(p) = HoldingsDict(p.asset_type)[p.ticker].avg_price
            /\ p.cost_basis = FMul(Quantity(p), AvgPrice(p))
            /\ p.current_value = FMul(Quantity(p), CurrentPrice(p))
            /\ p.gain_loss = FSub(p.current_value, p.cost_basis)
        /\ value.total_value = SumOf(value.all_positions, "current_value")
        /\ value.total_cost = SumOf(value.all_positions, "cost_basis")
        /\ value.total_gain_loss = FSub(value.total_value, value.total_cost)

\* a stock bought 10 @ 120 and quoted 150, a fund bought 10 @ 80 whose NAV
\* grew to 100: both are listed, 2500 (rounded) against a cost of 2000
C11_Witness ==
    /\ Valued
    /\ Len(call.value.positions) = 1
    /\ Len(call.value.mutual_fund_positions) = 1
    /\ call.value.positions[1].cost_basis = Float(1200)
    /\ call.value.positions[1].current_value = Float(1500)
    /\ call.value.positions[1].gain_loss = Float(300)
    /\ call.value.mutual_fund_positions[1].cost_basis = Float(800)
    /\ call.value.mutual_fund_positions[1].current_value = Float(1000)
    /\ call.value.total_value = Float(2500)
    /\ call.value.total_cost = Float(2000)
    /\ call.value.total_gain_loss = FSub(Float(2500), Float(2000))

(***************************************************************************)
(* C12                                                                     *)
(***************************************************************************)
\* C12: when get_stock_data gives None or an empty frame for a held stock,
\* get_portfolio_value still returns its dict; the stock is in none of the
\* lists and the totals are the sums over the listed positions only, while
\* every stock with a quote and every fund is listed with its value.
C12_UnquotedStockLeftOut ==
    call.op = "get_portfolio_value" =>
        LET value == call.value IN
        /\ ~call.raised
        /\ \A t \in DOMAIN holdings :
            IF HasQuote(call.quotes[t])
            THEN \E i \in 1..Len(value.positions) :
                    value.positions[i] = StockValue(t, holdings[t], call.quotes[t].close)
            ELSE /\ ~Listed(value, "stock", t)
                 /\ \A i \in 1..Len(value.positions) : value.positions[i].ticker # t
                 /\ \A i \in 1..Len(value.mutual_fund_positions) :
                        value.mutual_fund_positions[i].asset_type # "stock"
        /\ \A c \in DOMAIN mutual_funds :
            \E i \in 1..Len(value.mutual_fund_positions) :
                value.mutual_fund_positions[i]
                    = FundValue(c, mutual_funds[c], call.growth[c])
        /\ value.total_value = SumOf(value.all_positions, "current_value")
        /\ value.total_cost = SumOf(value.all_positions, "cost_basis")

\* the stock A has no quote, the fund F (10 @ 80, NAV grown to 100) is the
\* only position listed and the totals are its own
C12_Witness ==
    /\ Valued
    /\ "A" \in DOMAIN holdings
    /\ call.quotes["A"] = NoData
    /\ call.value.positions = << >>
    /\ Len(call.value.all_positions) = 1
    /\ call.value.all_positions[1].asset_type = "mutual_fund"
    /\ call.value.total_value = Float(1000)
    /\ call.value.total_cost = Float(800)

(***************************************************************************)
(* C13                                                                     *)
(***************************************************************************)
\* C13: get_portfolio_value never divides by zero: no call raises, a listed
\* position whose cost_basis is 0 has gain_loss_pct 0, and
\* total_gain_loss_pct is 0 when total_cost is 0.
C13_NoDivisionByZero ==
    call.op = "get_portfolio_value" =>
        LET value == call.value IN
        /\ ~call.raised
        /\ \A i \in 1..Len(value.all_positions) :
            value.all_positions[i].cost_basis = Zero
                => value.all_positions[i].gain_loss_pct = Zero
        /\ value.total_cost = Zero => value.total_gain_loss_pct = Zero

\* a stock bought at price 0 and quoted 150: cost_basis 0, a gain of 1500,
\* gain_loss_pct 0 for the position and for the total
C13_Witness ==
    /\ Valued
    /\ Len(call.value.all_positions) = 1
    /\ call.value.all_positions[1].cost_basis = Zero
    /\ call.value.all_positions[1].gain_loss = Float(1500)
    /\ call.value.all_positions[1].gain_loss_pct = Zero
    /\ call.value.total_cost = Zero
    /\ call.value.total_gain_loss_pct = Zero

(***************************************************************************)
(* C14                                                                     *)
(***************************************************************************)
ReadOnlyCalls ==
    {"get_portfolio_value", "get_portfolio_returns", "calculate_portfolio_metrics"}

C14_ReadOnlyStep == call'.op \in ReadOnlyCalls => UNCHANGED ledger

\* C14: a step of get_portfolio_value, get_portfolio_returns or
\* calculate_portfolio_metrics leaves holdings, mutual_funds and
\* transactions as they were.
C14_AnalyticsReadOnly == [][C14_ReadOnlyStep]_vars

\* metrics were computed from a series on a ledger of a stock and a fund
C14_Witness ==
    /\ call.op = "calculate_portfolio_metrics"
    /\ call.series = "DataFrame"
    /\ Len(call.frame.index) = 3
    /\ call.metrics.annualized_return.of[2] = 3
    /\ Len(transactions) = 2
    /\ DOMAIN holdings = {"A"}
    /\ DOMAIN mutual_funds = {"F"}

(***************************************************************************)
(* Vocabulary of the properties of the return series.                      *)
(***************************************************************************)
\* the last call was get_portfolio_returns and it returned a frame
Built == call.op = "get_portfolio_returns" /\ call.returned = "DataFrame"

\* the held instruments with a return series, and the series of each
Instruments ==
    {<<"stock", t>> : t \in {x \in DOMAIN holdings : call.history[x].data # "None"}}
        \cup {<<"mutual_fund", c>> : c \in DOMAIN mutual_funds}

SeriesOf(instrument) ==
    IF instrument[1] = "stock"
    THEN calculate_stock_returns(call.history[instrument[2]])
    ELSE call.funds[instrument[2]]

\* the instrument has a return at the date
HasReturn(instrument, date) ==
    /\ InIndex(SeriesOf(instrument), date)
    /\ ReturnAt(SeriesOf(instrument), date) # NaN

\* quantity * avg_price of an instrument over that of all held positions
CostWeight(instrument) ==
    LET position == HoldingsDict(instrument[1])[instrument[2]]
    IN FDiv(FMul(position.shares, position.avg_price), TotalInvestment)

\* the sum of weight * return over the instruments listed
RECURSIVE WeightedSum(_, _)
WeightedSum(instruments, date) ==
    IF instruments = << >> THEN Zero
    ELSE FAdd(FMul(ReturnAt(SeriesOf(Head(instruments)), date),
                   CostWeight(Head(instruments))),
              WeightedSum(Tail(instruments), date))

\* stocks first, then funds
InOrder(instruments) ==
    SelectSeq(<<<<"stock", "A">>, <<"mutual_fund", "F">>>>,
              LAMBDA x : x \in instruments)

(***************************************************************************)
(* C15                                                                     *)
(***************************************************************************)
\* C15: at every date of the series, Portfolio_Daily_Return is the sum, over
\* the held instruments that have a return at that date, of the return times
\* the instrument's cost weight.
C15_DailyReturnIsWeightedSum ==
    Built =>
        \A i \in 1..Len(call.frame.index) :
            call.frame.Portfolio_Daily_Return[i]
                = WeightedSum(InOrder({x \in Instruments :
                                        HasReturn(x, call.frame.index[i])}),
                              call.frame.index[i])

(***************************************************************************)
(* C16                                                                     *)
(***************************************************************************)
\* the dates from the latest start to the earliest end of the series
CommonWindow ==
    {d \in 0..9 :
        \A x \in Instruments :
            /\ SeriesOf(x).index[1] <= d
            /\ d <= SeriesOf(x).index[Len(SeriesOf(x).index)]}

RECURSIVE Compound(_, _)
Compound(daily, i) ==
    IF i = 0 THEN One
    ELSE FMul(Compound(daily, i - 1), FAdd(One, daily[i]))

\* C17: at every date of the series, Portfolio_Cumulative_Return is the
\* product of (1 + Portfolio_Daily_Return) over the dates up to it, minus 1.
C17_CumulativeIsCompounded ==
    Built =>
        /\ Len(call.frame.Portfolio_Cumulative_Return) = Len(call.frame.index)
        /\ \A i \in 1..Len(call.frame.index) :
            call.frame.Portfolio_Cumulative_Return[i]
                = FSub(Compound(call.frame.Portfolio_Daily_Return, i), One)

\* two days with returns that are not zero: the second cumulative return
\* compounds both
C17_Witness ==
    /\ Built
    /\ Len(call.frame.index) >= 2
    /\ call.frame.Portfolio_Daily_Return[1] # Zero
    /\ call.frame.Portfolio_Daily_Return[2] # Zero
    /\ call.frame.Portfolio_Cumulative_Return[2]
        # call.frame.Portfolio_Daily_Return[2]
    /\ call.frame.Portfolio_Cumulative_Return[2]
        = FSub(FMul(FAdd(One, call.frame.Portfolio_Daily_Return[1]),
                    FAdd(One, call.frame.Portfolio_Daily_Return[2])), One)

(***************************************************************************)
(* Vocabulary of the properties of utils/performance_metrics.py.           *)
(***************************************************************************)
\* the last call was op, on a series of returns with these many observations
\* at most (None counts as none)
Measured(op) == call.op = op

Observations(series) == IF series.given THEN Len(series.values) ELSE 0

\* every field of the struct is the number 0
AllZero(metrics, fields) ==
    /\ DOMAIN metrics = fields
    /\ \A field \in fields : metrics[field] = [number |-> <<0, 1>>]

PerformanceFields ==
    {"total_return", "annualized_return", "volatility", "sharpe_ratio",
     "sortino_ratio", "max_drawdown", "alpha", "beta", "information_ratio"}

RiskFields ==
    {"daily_var_95", "daily_var_99", "monthly_var_95", "monthly_var_99",
     "downside_deviation", "monthly_volatility", "correlation_to_market"}

\* C18: calculate_performance_metrics on a missing series or one with fewer
\* than 2 observations returns a dict, its nine fields all 0, and
\* calculate_risk_metrics on a missing series or one with fewer than 30
\* observations returns a dict, its seven fields all 0; neither raises
C18_DegenerateInputsGiveZeros ==
    /\ Measured("calculate_performance_metrics") /\ Observations(call.returns) < 2
        => ret = "dict" /\ AllZero(call.metrics, PerformanceFields)
    /\ Measured("calculate_risk_metrics") /\ Observations(call.returns) < 30
        => ret = "dict" /\ AllZero(call.metrics, RiskFields)

\* a series of 29 observations has been handed to calculate_risk_metrics and
\* came back as seven zeros
C18_Witness ==
    /\ Measured("calculate_risk_metrics")
    /\ call.returns.given
    /\ Len(call.returns.values) = 29
    /\ ret = "dict"
    /\ call.metrics.daily_var_95.number = <<0, 1>>
    /\ Cardinality(DOMAIN call.metrics) = 7

\* C19: with no benchmark series, calculate_performance_metrics returns
\* alpha = 0, beta = 0 and information_ratio = 0 whatever the returns, and
\* its six other fields are what they are when a benchmark is given:
\* total_return is 100 * (the product of (1 + r) - 1) from 2 observations on
C19_NoBenchmarkZeroesThree ==
    Measured("calculate_performance_metrics") /\ ~call.benchmark_returns.given
        => /\ \A field \in {"alpha", "beta", "information_ratio"} :
                  call.metrics[field] = [number |-> <<0, 1>>]
           /\ \A field \in PerformanceFields \ {"alpha", "beta", "information_ratio"} :
                  \A benchmark_returns \in BenchmarkSeries :
                      call.metrics[field]
                          = PerformanceMetrics(call.returns, benchmark_returns)[field]
           /\ Observations(call.returns) >= 2
                  => call.metrics.total_return
                         = [number |-> QMul(QSub(Prod(call.returns.values), <<1, 1>>),
                                            <<100, 1>>)]

\* two observations and no benchmark: alpha is 0 and the volatility is computed
C19_Witness ==
    /\ Measured("calculate_performance_metrics")
    /\ ~call.benchmark_returns.given
    /\ call.returns = [given |-> TRUE, values |-> <<<<1, 100>>, <<3, 100>>>>]
    /\ call.metrics.alpha = [number |-> <<0, 1>>]
    /\ call.metrics.volatility.of = <<call.returns.values>>
    /\ call.metrics.total_return.number = <<403, 100>>

\* the daily returns 0.01, -0.02, 0.03 have been measured
ScenarioD ==
    /\ Measured("calculate_performance_metrics")
    /\ call.returns = [given |-> TRUE,
                       values |-> <<<<1, 100>>, <<-1, 50>>, <<3, 100>>>>]

\* |a - b| <= tolerance
Near(a, b, tolerance) ==
    /\ QLe(QSub(a, b), tolerance)
    /\ QLe(QSub(b, a), tolerance)

\* C20 as stated: for the daily returns 0.01, -0.02, 0.03 the total return
\* is 0.019094 to six decimals, reported as the percentage 1.9094
C20_TotalReturnIs019094 ==
    ScenarioD
        => Near(call.metrics.total_return.number, <<19094, 10000>>, <<5, 100000>>)

\* C20: for the daily returns 0.01, -0.02, 0.03 the total return is
\* 1.01 * 0.98 * 1.03 - 1 = 0.019494, reported as the percentage 1.9494
C20_TotalReturnIs019494 ==
    ScenarioD
        => /\ call.metrics.total_return.number
                  = QMul(QSub(QMul(QMul(<<101, 100>>, <<98, 100>>), <<103, 100>>),
                              <<1, 1>>), <<100, 1>>)
           /\ Near(call.metrics.total_return.number, <<19494, 10000>>, <<5, 100000>>)

C20_Witness ==
    /\ ScenarioD
    /\ ret = "dict"
    /\ call.metrics.total_return = [number |-> <<9747, 5000>>]

(***************************************************************************)
(* C26                                                                     *)
(***************************************************************************)
\* the float sum, in the order of the list, of the shares of the records at
\* the places I
RECURSIVE SharesSum(_, _)
SharesSum(I, n) ==
    IF n = 0 THEN Zero
    ELSE IF n \in I
         THEN FAdd(SharesSum(I, n - 1), transactions[n].shares)
         ELSE SharesSum(I, n - 1)

OtherLedgerKept(asset_type) ==
    IF asset_type = "mutual_fund"
    THEN holdings' = holdings
    ELSE mutual_funds' = mutual_funds

C27_IndependentStep ==
    /\ \A <<t, s, p, d, a>> \in BuyCalls :
            add_position(t, s, p, d, a) => OtherLedgerKept(a)
    /\ \A <<t, s, p, d, a>> \in SellCalls :
            remove_position(t, s, p, d, a) => OtherLedgerKept(a)
    /\ \A c \in Tickers, u \in Units, n \in Navs, d \in Dates, f \in FundNames :
            add_mutual_fund(c, u, n, d, f) => OtherLedgerKept("mutual_fund")
    /\ \A c \in Tickers, u \in SellUnits, n \in Navs, d \in SellDates :
            remove_mutual_fund(c, u, n, d) => OtherLedgerKept("mutual_fund")

\* C27: an add or a remove with asset class mutual_fund (add_mutual_fund and
\* remove_mutual_fund included) changes no stock position, and an add or a
\* remove with asset class stock changes no mutual-fund position
C27_LedgersIndependent == [][C27_IndependentStep]_vars

\* the identifier A is held in both dictionaries, 30 shares at an average of
\* 110 as a stock and 10 units at 100 as a fund
C27_Witness ==
    /\ "A" \in DOMAIN holdings
    /\ "A" \in DOMAIN mutual_funds
    /\ holdings["A"].shares = Float(30)
    /\ FGt(holdings["A"].avg_price, Float(100))
    /\ mutual_funds["A"].shares = Float(10)
    /\ mutual_funds["A"].avg_price = Float(100)
    /\ Len(transactions) = 3

(***************************************************************************)
(* C28                                                                     *)
(***************************************************************************)
\* the last record is a buy of an instrument that had been sold out: a sell
\* of it is on the list and no share of it was left before the buy
BoughtAfterSellOut(asset_type, ticker) ==
    LET n == Len(transactions)
    IN /\ n > 0
       /\ transactions[n].ticker = ticker
       /\ transactions[n].asset_type = asset_type
       /\ transactions[n].action = "buy"
       /\ \E i \in SellsOf(asset_type, ticker) : i < n
       /\ SharesAfter(n - 1, asset_type, ticker) = Zero

\* C28: after a buy of an instrument whose position was fully sold, the
\* position holds the shares, the price (as avg_price) and the date of that
\* buy alone
C28_FreshPositionAfterSellOut ==
    \A a \in AssetTypes : \A t \in Tickers :
        BoughtAfterSellOut(a, t)
            => /\ t \in DOMAIN HoldingsDict(a)
               /\ HoldingsDict(a)[t].shares = transactions[Len(transactions)].shares
               /\ HoldingsDict(a)[t].avg_price = transactions[Len(transactions)].price
               /\ HoldingsDict(a)[t].purchase_date
                      = transactions[Len(transactions)].date

\* 10 shares of A bought at 100 on day 1, sold on day 2, and 20 bought at
\* 120 on day 2: the position is 20 shares at 120 of day 2
C28_Witness ==
    /\ Len(transactions) = 3
    /\ StockRecord(1, "buy", 10, 100)
    /\ transactions[1].date = 1
    /\ StockRecord(2, "sell", 10, 150)
    /\ StockRecord(3, "buy", 20, 120)
    /\ transactions[3].date = 2
    /\ holdings["A"].shares = Float(20)
    /\ holdings["A"].avg_price = Float(120)
    /\ holdings["A"].purchase_date = 2

(***************************************************************************)
(* C29                                                                     *)
(***************************************************************************)
\* C29: with no stock held, mutual funds held or not, get_portfolio_returns
\* returns None, and calculate_portfolio_metrics returns its four metrics
\* all equal to 0
C29_NoStocksNoSeries ==
    DOMAIN holdings = {}
        => /\ call.op = "get_portfolio_returns"
                => call.returned = "None" /\ ret = "None"
           /\ call.op = "calculate_portfolio_metrics"
                => /\ call.series = "None"
                   /\ ret = "dict"
                   /\ DOMAIN call.metrics
                          = {"annualized_return", "volatility", "sharpe_ratio",
                             "max_drawdown"}
                   /\ \A metric \in DOMAIN call.metrics :
                          call.metrics[metric] = [number |-> Zero]

\* a fund is held and no stock: calculate_portfolio_metrics returned zeros
C29_Witness ==
    /\ DOMAIN holdings = {}
    /\ "F" \in DOMAIN mutual_funds
    /\ call.op = "calculate_portfolio_metrics"
    /\ call.series = "None"
    /\ call.metrics.volatility = [number |-> Zero]
    /\ ret = "dict"

(***************************************************************************)
(* C21                                                                     *)
(***************************************************************************)
\* two builds in a row on the same ledger, answered the same stock
\* histories, each returning a series
SameBuildTwice ==
    /\ call.op = "get_portfolio_returns"
    /\ call'.op = "get_portfolio_returns"
    /\ call.returned = "DataFrame"
    /\ call'.returned = "DataFrame"
    /\ UNCHANGED ledger
    /\ call'.history = call.history

\* C21 as stated: two builds of get_portfolio_returns for the same ledger and
\* the same stock quotes draw the same mutual-fund returns and give the same
\* portfolio return series
C21_FundHistoryDeterministic ==
    [][SameBuildTwice
          => /\ \A fund_code \in DOMAIN mutual_funds :
                    call'.funds[fund_code].Daily_Return
                        = call.funds[fund_code].Daily_Return
             /\ call'.frame = call.frame]_vars

(***************************************************************************)
(* C22                                                                     *)
(***************************************************************************)
\* the excess returns of the measured series that are strictly negative, in
\* the order of the series: r - rf_daily < 0, that is r < rf_daily
NegativeExcess ==
    LET r == call.returns.values
        below == {i \in 1..Len(r) : r[i][1] * RfDaily[2] < RfDaily[1] * r[i][2]}
        Pick[i \in 0..Len(r)] ==
            IF i = 0 THEN << >>
            ELSE IF i \in below
                 THEN Append(Pick[i - 1], QSub(r[i], RfDaily))
                 ELSE Pick[i - 1]
    IN Pick[Len(r)]

\* C22: on a series of at least 2 observations, the denominator of
\* calculate_sortino_ratio is sqrt(mean(e^2)) over the strictly negative
\* excess returns e = r - rf_daily, and exactly 0.0001 when there is none;
\* it is never zero (the mean is taken over at least one non-zero square)
C22_SortinoDenominator ==
    Measured("calculate_sortino_ratio") /\ Observations(call.returns) >= 2
        => /\ NegativeExcess = << >>
                => call.downside_deviation = [number |-> <<1, 10000>>]
           /\ NegativeExcess # << >>
                => /\ call.downside_deviation
                          = [fn |-> "np.sqrt(np.mean(negative_returns ** 2))",
                             of |-> <<NegativeExcess>>]
                   /\ \A i \in 1..Len(NegativeExcess) : NegativeExcess[i][1] < 0
           /\ call.downside_deviation # [number |-> <<0, 1>>]
           /\ call.ratio.of[2] = call.downside_deviation

\* the gains 0.01 and 0.01 have no negative excess return: the denominator
\* is 0.0001
C22_Witness ==
    /\ Measured("calculate_sortino_ratio")
    /\ call.returns = [given |-> TRUE, values |-> <<<<1, 100>>, <<1, 100>>>>]
    /\ call.downside_deviation = [number |-> <<1, 10000>>]
    /\ ret = "float"

(***************************************************************************)
(* C23                                                                     *)
(***************************************************************************)
\* the monthly return of block k (from 0) of the measured series: the
\* returns 21k .. 21k + 20 (from 0) compounded
Block(k) ==
    [fn |-> "(1 + block).prod() - 1",
     of |-> <<[j \in 1..21 |-> call.returns.values[21 * k + j]]>>]

\* the monthly VaR of the measured series at a percentile: the percentile of
\* the blocks, or the fallback daily_var * sqrt(21)
BlockVar(percentile) ==
    [fn |-> "abs(np.percentile(monthly_returns, percentile)) * 100",
     of |-> <<percentile, call.monthly_returns>>]

FallbackVar(percentile) ==
    [fn |-> "abs(np.percentile(portfolio_returns, percentile) * np.sqrt(21)) * 100",
     of |-> <<percentile, call.returns.values>>]

\* C23: on N >= 30 observations calculate_risk_metrics builds floor(N / 21)
\* monthly returns, block k compounding the observations 21k .. 21k + 20, a
\* trailing partial block left out; the monthly VaR is the percentile of the
\* blocks when there are at least 10 of them (N >= 210) and the fallback
\* daily_var * sqrt(21) otherwise
C23_MonthlyBlocks ==
    Measured("calculate_risk_metrics") /\ Observations(call.returns) >= 30
        => LET N == Observations(call.returns)
           IN /\ Len(call.monthly_returns) = N \div 21
              /\ \A k \in 0..(N \div 21) - 1 : call.monthly_returns[k + 1] = Block(k)
              /\ N >= 210
                    => /\ call.metrics.monthly_var_95 = BlockVar(5)
                       /\ call.metrics.monthly_var_99 = BlockVar(1)
              /\ N < 210
                    => /\ call.metrics.monthly_var_95 = FallbackVar(5)
                       /\ call.metrics.monthly_var_99 = FallbackVar(1)

\* 220 observations: 10 blocks, the last 10 observations in none, and the
\* monthly VaR taken from the blocks
C23_Witness ==
    /\ Measured("calculate_risk_metrics")
    /\ Observations(call.returns) = 220
    /\ Len(call.monthly_returns) = 10
    /\ call.monthly_returns[10].of[1][21] = call.returns.values[210]
    /\ call.metrics.monthly_var_95.of[2] = call.monthly_returns

(***************************************************************************)
(* C25: for a series of at least two returns calculate_max_drawdown        *)
(* returns the least, over the rows t, of cum_t / (the greatest cum_s with *)
(* s <= t) - 1, where cum_t is the value one unit has compounded to after  *)
(* the first t returns.                                                    *)
(***************************************************************************)
\* the value of one unit after the first t returns
Compounded(t) == Prod(SubSeq(call.returns.values, 1, t))

\* the greatest compounded value up to row t
PeakUpTo(t) ==
    CHOOSE peak \in {Compounded(s) : s \in 1..t} :
        \A s \in 1..t : QLe(Compounded(s), peak)

\* the fall from the peak at row t
FallAt(t) == QSub(QDiv(Compounded(t), PeakUpTo(t)), Q(1, 1))

C25_MaxDrawdownFormula ==
    (call.op = "calculate_max_drawdown" /\ ~TooFew(call.returns, 2)) =>
        \E t \in 1..Len(call.returns.values) :
            /\ call.max_drawdown = Number(FallAt(t))
            /\ \A u \in 1..Len(call.returns.values) : QLe(FallAt(t), FallAt(u))

\* a gain, a loss and a gain that does not recover it: the peak is the first
\* row and the deepest fall the second
C25_Witness ==
    /\ call.op = "calculate_max_drawdown"
    /\ call.returns = Series(<<Q(3, 100), Q(-2, 100), Q(1, 100)>>)
    /\ call.max_drawdown = Number(Q(-2, 100))

(***************************************************************************)
(* C30: the max_drawdown that Portfolio.calculate_portfolio_metrics        *)
(* reports for a series equals 100 times calculate_max_drawdown of the     *)
(* Portfolio_Daily_Return column of the same series, and is never greater  *)
(* than 0.                                                                 *)
(***************************************************************************)
\* a call of calculate_portfolio_metrics that had a series to compute from
MetricsComputed ==
    /\ call.op = "calculate_portfolio_metrics"
    /\ call.returned = "dict"
    /\ ~NoSeries(call.series, call.frame)

\* the reported max_drawdown is not greater than 0
DrawdownNotPositive ==
    \/ call.metrics.max_drawdown.number \in {NaN, NegInf}
    \/ ~FGt(call.metrics.max_drawdown.number, Zero)

C30_DrawdownsAgree ==
    MetricsComputed =>
        /\ call.metrics.max_drawdown =
               Number(Times100(FloatMaxDrawdown(call.frame.Portfolio_Daily_Return)))
        /\ DrawdownNotPositive

(***************************************************************************)
(* C24: calculate_sector_allocation returns one entry for each sector      *)
(* label of the snapshot's stock positions; its weight is the sum, over    *)
(* the positions with that label, of current_value divided by the total    *)
(* current_value of the snapshot's stock positions, times 100.  An empty   *)
(* list of stock positions yields empty sector and weight lists.           *)
(***************************************************************************)
SectorCall == call.op = "calculate_sector_allocation"

\* the snapshot's stock positions with the label, in the snapshot's order
Labelled(label) ==
    SelectSeq(call.portfolio.positions,
              LAMBDA pos : call.lookup[pos.ticker] = label)

\* current_value / total over positions, summed
RECURSIVE ShareOf(_, _)
ShareOf(positions, total) ==
    IF Len(positions) = 1 THEN FDiv(positions[1].current_value, total)
    ELSE FAdd(ShareOf(SubSeq(positions, 1, Len(positions) - 1), total),
              FDiv(positions[Len(positions)].current_value, total))

\* the total current_value of the snapshot's stock positions
StockTotal == Total(Zero, call.portfolio.positions, "current_value")

\* one entry for each label, weighing the label's positions against total
WeighedAgainst(total) ==
    LET allocation == call.allocation
        labels == {call.lookup[call.portfolio.positions[i].ticker] :
                        i \in 1..Len(call.portfolio.positions)}
    IN /\ Len(allocation.sectors) = Len(allocation.weights)
       /\ {allocation.sectors[i] : i \in 1..Len(allocation.sectors)} = labels
       /\ Len(allocation.sectors) = Cardinality(labels)
       /\ \A i \in 1..Len(allocation.sectors) :
            allocation.weights[i] =
                FMul(ShareOf(Labelled(allocation.sectors[i]), total), Float(100))

C24_SectorWeights ==
    SectorCall =>
        /\ ret = "dict"
        /\ WeighedAgainst(StockTotal)

\* C24 as stated: the weights are taken against the snapshot's total_value
C24_WeightsOverSnapshotTotal ==
    SectorCall => WeighedAgainst(call.portfolio.total_value)

\* three stocks, two of them in one sector, and a mutual fund in the
\* snapshot: two entries, whose weights are taken against the stocks alone
C24_Witness ==
    /\ SectorCall
    /\ Len(call.portfolio.positions) = 3
    /\ Len(call.portfolio.mutual_fund_positions) = 1
    /\ call.portfolio.total_value # StockTotal
    /\ Len(call.allocation.sectors) = 2
    /\ \E i \in 1..2 : Len(Labelled(call.allocation.sectors[i])) = 2

\* no stock position, a mutual fund in the snapshot: empty lists
C24_WitnessEmpty ==
    /\ SectorCall
    /\ call.portfolio.positions = << >>
    /\ Len(call.portfolio.mutual_fund_positions) = 1
    /\ call.allocation = [sectors |-> << >>, weights |-> << >>]

====
